---- MODULE Spec2Model ----
(***************************************************************************)
(* LuggageLink: the storage layer (MemStorage, PgStorage) and the request  *)
(* layer (server/routes.ts) as a state machine.                            *)
(*                                                                         *)
(* A table is a function from row key to record.  Records carry the        *)
(* camelCase field names of shared/schema.ts; what PgStorage hands back to *)
(* its caller is the raw row, whose keys are the column names (PgRow).     *)
(* Text that is searched (airports, cities) is a tuple of characters.      *)
(* A rating is the pair [num, den] standing for num / den.                 *)
(***************************************************************************)
EXTENDS Integers, Sequences, FiniteSets, TLC

VARIABLES
    backend,     \* "mem" | "pg": which IStorage `storage` is (storage.ts 502-504)
    users,       \* MemStorage.users      / table users
    trips,       \* MemStorage.trips      / table trips
    packages,    \* MemStorage.packages   / table packages
    deliveries,  \* MemStorage.deliveries / table deliveries
    messages,    \* MemStorage.messages   / table messages
    reviews,     \* MemStorage.reviews    / table reviews
    nextId,      \* MemStorage.userId, tripId, ... / the serial sequences
    now,         \* the clock read by new Date() and NOW()
    resp,        \* the last call and what it returned
    calls,       \* the storage calls in flight, each stopped at an await
    clients      \* wss.clients: the WebSocket connections and what each was sent

vars ==
    <<backend, users, trips, packages, deliveries, messages, reviews, nextId, now, resp,
      calls, clients>>

----------------------------------------------------------------------------
(* Bounds of the model *)

\* Rows a run of SpecDelivery creates, packages and deliveries together.
MaxMatchRows == 3
MaxNow == 1
MaxReviews == 3
MaxTrips == 2
MaxPackages == 2
MaxMessages == 3
MaxHttpRows == 1
MaxUsers == 2
MaxCalls == 2
MaxCreated == 4

----------------------------------------------------------------------------
(* Values *)

\* What reading a property that the object does not have yields.
Undefined == 0

\* null: a column without a value
Null == 0

Backends == {"mem", "pg"}

EmptyTable == [k \in {} |-> 0]

EmptyBody == [k \in {} |-> 0]

\* { ...a, ...b }
Merge(a, b) ==
    [k \in (DOMAIN a) \cup (DOMAIN b) |-> IF k \in DOMAIN b THEN b[k] ELSE a[k]]

\* obj[key] of a JavaScript object
Prop(obj, key) == IF key \in DOMAIN obj THEN obj[key] ELSE Undefined

\* Map.set(id, value) / INSERT of a row
Put(table, key, value) == (key :> value) @@ table

Store ==
    [users |-> users, trips |-> trips, packages |-> packages,
     deliveries |-> deliveries, messages |-> messages, reviews |-> reviews,
     nextId |-> nextId]

Tables ==
    [users |-> users, trips |-> trips, packages |-> packages,
     deliveries |-> deliveries, messages |-> messages, reviews |-> reviews]

Install(s) ==
    /\ users' = s.users
    /\ trips' = s.trips
    /\ packages' = s.packages
    /\ deliveries' = s.deliveries
    /\ messages' = s.messages
    /\ reviews' = s.reviews
    /\ nextId' = s.nextId

\* What a storage call hands back: the store after it, the value (no row: <<>>,
\* one row: <<r>>), and whether it returned (FALSE: it threw).
Returned(s, rows) == [s |-> s, rows |-> rows, ok |-> TRUE]

Threw(s) == [s |-> s, rows |-> <<>>, ok |-> FALSE]

----------------------------------------------------------------------------
(* The rows PgStorage returns: SELECT * / RETURNING * give the column names *)

Column(field) ==
    CASE field = "userId" -> "user_id"
      [] field = "tripId" -> "trip_id"
      [] field = "packageId" -> "package_id"
      [] field = "travelerId" -> "traveler_id"
      [] field = "senderId" -> "sender_id"
      [] field = "receiverId" -> "receiver_id"
      [] field = "reviewerId" -> "reviewer_id"
      [] field = "revieweeId" -> "reviewee_id"
      [] field = "deliveryId" -> "delivery_id"
      [] field = "departureAirport" -> "departure_airport"
      [] field = "destinationCity" -> "destination_city"
      [] field = "departureDate" -> "departure_date"
      [] field = "arrivalDate" -> "arrival_date"
      [] field = "availableWeight" -> "available_weight"
      [] field = "senderCity" -> "sender_city"
      [] field = "receiverCity" -> "receiver_city"
      [] field = "packageType" -> "package_type"
      [] field = "deliveryDeadline" -> "delivery_deadline"
      [] field = "paymentStatus" -> "payment_status"
      [] field = "isActive" -> "is_active"
      [] field = "isRead" -> "is_read"
      [] field = "isVerified" -> "is_verified"
      [] field = "verificationStatus" -> "verification_status"
      [] field = "reviewCount" -> "review_count"
      [] field = "createdAt" -> "created_at"
      [] field = "updatedAt" -> "updated_at"
      [] OTHER -> field

PgRow(r) ==
    [c \in {Column(f) : f \in DOMAIN r} |->
        r[CHOOSE f \in DOMAIN r : Column(f) = c]]

\* SELECT * FROM table WHERE id = $1
PgSelectById(table, id) ==
    LET ks == {k \in DOMAIN table : table[k].id = id}
    IN  IF ks = {} THEN <<>> ELSE <<table[CHOOSE k \in ks : TRUE]>>

PgRows(rows) == IF rows = <<>> THEN <<>> ELSE <<PgRow(rows[1])>>

\* A foreign key: REFERENCES table(id)
PgReferences(table, id) == \E k \in DOMAIN table : table[k].id = id

----------------------------------------------------------------------------
(* Text: String.toLowerCase, String.includes, and SQL's LOWER and LIKE *)

UpperCase ==
    <<"A", "B", "C", "D", "E", "F", "G", "H", "I", "J", "K", "L", "M",
      "N", "O", "P", "Q", "R", "S", "T", "U", "V", "W", "X", "Y", "Z">>

LowerCase ==
    <<"a", "b", "c", "d", "e", "f", "g", "h", "i", "j", "k", "l", "m",
      "n", "o", "p", "q", "r", "s", "t", "u", "v", "w", "x", "y", "z">>

ToLowerChar(c) ==
    IF \E i \in DOMAIN UpperCase : UpperCase[i] = c
    THEN LowerCase[CHOOSE i \in DOMAIN UpperCase : UpperCase[i] = c]
    ELSE c

ToLowerCase(text) == [i \in DOMAIN text |-> ToLowerChar(text[i])]

\* text.includes(part)
Includes(text, part) ==
    \E i \in 0..(Len(text) - Len(part)) : SubSeq(text, i + 1, i + Len(part)) = part

\* text LIKE pattern: % stands for any run of characters, _ for any one character
RECURSIVE Like(_, _)
Like(text, pattern) ==
    IF pattern = <<>> THEN text = <<>>
    ELSE IF Head(pattern) = "%"
    THEN Like(text, Tail(pattern)) \/ (text # <<>> /\ Like(Tail(text), pattern))
    ELSE /\ text # <<>>
         /\ (Head(pattern) = "_" \/ Head(pattern) = Head(text))
         /\ Like(Tail(text), Tail(pattern))

\* `%${filter.toLowerCase()}%`
Contains(filter) == <<"%">> \o ToLowerCase(filter) \o <<"%">>

\* if (filters.key), for a string: the key is there and its value is not ""
TruthyText(filters, key) == key \in DOMAIN filters /\ filters[key] # <<>>

\* if (filters.key), for a date: the key is there and its value is not null
TruthyDate(filters, key) == key \in DOMAIN filters /\ filters[key] # Null

\* if (filters.key !== undefined)
Defined(filters, key) == key \in DOMAIN filters

----------------------------------------------------------------------------
(* Users *)

MemGetUser(s, id) == IF id \in DOMAIN s.users THEN <<s.users[id]>> ELSE <<>>

PgGetUser(s, id) == PgRows(PgSelectById(s.users, id))

NewUser(id) ==
    [id |-> id,
     isVerified |-> FALSE,
     verificationStatus |->
        [idVerified |-> FALSE, phoneVerified |-> FALSE, addressVerified |-> FALSE],
     rating |-> [num |-> 0, den |-> 1],
     reviewCount |-> 0]

MemCreateUser(s) ==
    LET id == s.nextId.users
        user == NewUser(id)
    IN  Returned([s EXCEPT !.nextId.users = id + 1, !.users = Put(@, id, user)],
                 <<user>>)

PgCreateUser(s) ==
    LET id == s.nextId.users
        user == NewUser(id)
    IN  Returned([s EXCEPT !.nextId.users = id + 1, !.users = Put(@, id, user)],
                 <<PgRow(user)>>)

----------------------------------------------------------------------------
(* Trips *)

TripFields ==
    {"id", "userId", "departureAirport", "destinationCity", "departureDate",
     "arrivalDate", "availableWeight", "isActive"}

MemGetTrip(s, id) == IF id \in DOMAIN s.trips THEN <<s.trips[id]>> ELSE <<>>

PgGetTrip(s, id) == PgRows(PgSelectById(s.trips, id))

\* MemCreateTrip that writes without this.tripId++
MemCreateTrip_NoIncrement(s, tripData, userId) ==
    LET id == s.nextId.trips
        trip == Merge(tripData, [id |-> id, userId |-> userId, isActive |-> TRUE])
    IN  Returned([s EXCEPT !.trips = Put(@, id, trip)], <<trip>>)

MemCreateTrip(s, tripData, userId) ==
    LET id == s.nextId.trips
        trip == Merge(tripData, [id |-> id, userId |-> userId, isActive |-> TRUE])
    IN  Returned([s EXCEPT !.nextId.trips = id + 1, !.trips = Put(@, id, trip)],
                 <<trip>>)

PgCreateTrip(s, tripData, userId) ==
    LET id == s.nextId.trips
        trip == Merge(tripData, [id |-> id, userId |-> userId, isActive |-> TRUE])
        drawn == [s EXCEPT !.nextId.trips = id + 1]
    IN  IF ~PgReferences(s.users, userId)
        THEN Threw(drawn)
        ELSE Returned([drawn EXCEPT !.trips = Put(@, id, trip)], <<PgRow(trip)>>)

MemUpdateTrip(s, id, tripData) ==
    LET trip == MemGetTrip(s, id)
    IN  IF trip = <<>>
        THEN Returned(s, <<>>)
        ELSE LET updatedTrip == Merge(trip[1], tripData)
             IN  Returned([s EXCEPT !.trips = Put(@, id, updatedTrip)], <<updatedTrip>>)

\* The rows of a table, as the caller gets them
MemAll(table, keep(_)) == {table[k] : k \in {x \in DOMAIN table : keep(table[x])}}

PgAll(table, keep(_)) == {PgRow(table[k]) : k \in {x \in DOMAIN table : keep(table[x])}}

MemGetTrips(s, filters) ==
    LET Keep(trip) ==
            /\ trip.isActive
            /\ TruthyText(filters, "departureAirport") =>
                    Includes(ToLowerCase(trip.departureAirport),
                             ToLowerCase(filters.departureAirport))
            /\ TruthyText(filters, "destinationCity") =>
                    Includes(ToLowerCase(trip.destinationCity),
                             ToLowerCase(filters.destinationCity))
            /\ TruthyDate(filters, "departureDate") =>
                    trip.departureDate >= filters.departureDate
            /\ Defined(filters, "availableWeight") =>
                    trip.availableWeight >= filters.availableWeight
    IN  Returned(s, MemAll(s.trips, Keep))

PgGetTrips(s, filters) ==
    LET Keep(trip) ==
            /\ trip.isActive = TRUE
            /\ TruthyText(filters, "departureAirport") =>
                    Like(ToLowerCase(trip.departureAirport),
                         Contains(filters.departureAirport))
            /\ TruthyText(filters, "destinationCity") =>
                    Like(ToLowerCase(trip.destinationCity),
                         Contains(filters.destinationCity))
            /\ TruthyDate(filters, "departureDate") =>
                    trip.departureDate >= filters.departureDate
            /\ Defined(filters, "availableWeight") =>
                    trip.availableWeight >= filters.availableWeight
    IN  Returned(s, PgAll(s.trips, Keep))

----------------------------------------------------------------------------
(* Packages *)

PackageFields ==
    {"id", "userId", "senderCity", "receiverCity", "packageType", "weight",
     "deliveryDeadline", "status", "isActive"}

MemGetPackage(s, id) ==
    IF id \in DOMAIN s.packages THEN <<s.packages[id]>> ELSE <<>>

PgGetPackage(s, id) == PgRows(PgSelectById(s.packages, id))

MemCreatePackage(s, packageData, userId) ==
    LET id == s.nextId.packages
        pkg == Merge(packageData,
                     [id |-> id, userId |-> userId, status |-> "pending",
                      isActive |-> TRUE])
    IN  Returned([s EXCEPT !.nextId.packages = id + 1,
                           !.packages = Put(@, id, pkg)],
                 <<pkg>>)

PgCreatePackage(s, packageData, userId) ==
    LET id == s.nextId.packages
        pkg == Merge(packageData,
                     [id |-> id, userId |-> userId, status |-> "pending",
                      isActive |-> TRUE])
        drawn == [s EXCEPT !.nextId.packages = id + 1]
    IN  IF ~PgReferences(s.users, userId)
        THEN Threw(drawn)
        ELSE Returned([drawn EXCEPT !.packages = Put(@, id, pkg)], <<PgRow(pkg)>>)

MemUpdatePackage(s, id, packageData) ==
    LET pkg == MemGetPackage(s, id)
    IN  IF pkg = <<>>
        THEN Returned(s, <<>>)
        ELSE LET updatedPackage == Merge(pkg[1], packageData)
             IN  Returned([s EXCEPT !.packages = Put(@, id, updatedPackage)],
                          <<updatedPackage>>)

\* UPDATE table SET key = value, ... WHERE id = $i RETURNING *: each key of the
\* data is used as a column name, as it is.
PgUpdateRows(table, fields, id, data) ==
    LET set == [f \in {g \in fields : Column(g) \in DOMAIN data} |-> data[Column(f)]]
    IN  [k \in DOMAIN table |->
            IF table[k].id = id THEN Merge(table[k], set) ELSE table[k]]

PgColumnsExist(fields, data) ==
    \A key \in DOMAIN data : \E f \in fields : Column(f) = key

PgUpdatePackage(s, id, packageData) ==
    IF DOMAIN packageData = {}
    THEN Returned(s, PgGetPackage(s, id))
    ELSE IF ~PgColumnsExist(PackageFields, packageData)
    THEN Threw(s)
    ELSE LET table == PgUpdateRows(s.packages, PackageFields, id, packageData)
             key == IF "id" \in DOMAIN packageData THEN packageData.id ELSE id
         IN  Returned([s EXCEPT !.packages = table],
                      PgRows(PgSelectById(table, key)))

PgUpdateTrip(s, id, tripData) ==
    IF DOMAIN tripData = {}
    THEN Returned(s, PgGetTrip(s, id))
    ELSE IF ~PgColumnsExist(TripFields, tripData)
    THEN Threw(s)
    ELSE LET table == PgUpdateRows(s.trips, TripFields, id, tripData)
             key == IF "id" \in DOMAIN tripData THEN tripData.id ELSE id
         IN  Returned([s EXCEPT !.trips = table], PgRows(PgSelectById(table, key)))

MemGetPackages(s, filters) ==
    LET Keep(pkg) ==
            /\ pkg.isActive
            /\ TruthyText(filters, "senderCity") =>
                    Includes(ToLowerCase(pkg.senderCity), ToLowerCase(filters.senderCity))
            /\ TruthyText(filters, "receiverCity") =>
                    Includes(ToLowerCase(pkg.receiverCity),
                             ToLowerCase(filters.receiverCity))
            /\ TruthyText(filters, "packageType") => pkg.packageType = filters.packageType
            /\ Defined(filters, "weight") => pkg.weight <= filters.weight
            /\ TruthyDate(filters, "deliveryDeadline") =>
                    (pkg.deliveryDeadline = Null
                        \/ pkg.deliveryDeadline >= filters.deliveryDeadline)
    IN  Returned(s, MemAll(s.packages, Keep))

\* A comparison with NULL is not true: the row is not selected.
PgGetPackages(s, filters) ==
    LET Keep(pkg) ==
            /\ pkg.isActive = TRUE
            /\ TruthyText(filters, "senderCity") =>
                    Like(ToLowerCase(pkg.senderCity), Contains(filters.senderCity))
            /\ TruthyText(filters, "receiverCity") =>
                    Like(ToLowerCase(pkg.receiverCity), Contains(filters.receiverCity))
            /\ TruthyText(filters, "packageType") => pkg.packageType = filters.packageType
            /\ Defined(filters, "weight") => pkg.weight <= filters.weight
            /\ TruthyDate(filters, "deliveryDeadline") =>
                    (pkg.deliveryDeadline # Null
                        /\ pkg.deliveryDeadline >= filters.deliveryDeadline)
    IN  Returned(s, PgAll(s.packages, Keep))

----------------------------------------------------------------------------
(* Deliveries *)

MemGetDelivery(s, id) ==
    IF id \in DOMAIN s.deliveries THEN <<s.deliveries[id]>> ELSE <<>>

PgGetDelivery(s, id) == PgRows(PgSelectById(s.deliveries, id))

\* MemCreateDelivery with a guard: only a package that is still "pending" is matched.
MemCreateDelivery_OnlyPending(s, deliveryData, t) ==
    LET id == s.nextId.deliveries
        delivery == Merge(deliveryData,
                          [id |-> id, status |-> "pending", paymentStatus |-> "pending",
                           createdAt |-> t, updatedAt |-> t])
        stored == [s EXCEPT !.nextId.deliveries = id + 1,
                            !.deliveries = Put(@, id, delivery)]
        pkg == IF deliveryData.packageId \in DOMAIN stored.packages
               THEN <<stored.packages[deliveryData.packageId]>> ELSE <<>>
    IN  IF pkg # <<>> /\ pkg[1].status = "pending"
        THEN Returned([stored EXCEPT !.packages[pkg[1].id].status = "matched"],
                      <<delivery>>)
        ELSE Returned(stored, <<delivery>>)

MemCreateDelivery(s, deliveryData, t) ==
    LET id == s.nextId.deliveries
        delivery == Merge(deliveryData,
                          [id |-> id, status |-> "pending", paymentStatus |-> "pending",
                           createdAt |-> t, updatedAt |-> t])
        stored == [s EXCEPT !.nextId.deliveries = id + 1,
                            !.deliveries = Put(@, id, delivery)]
        pkg == MemGetPackage(stored, deliveryData.packageId)
    IN  IF pkg # <<>>
        THEN Returned(MemUpdatePackage(stored, pkg[1].id, [status |-> "matched"]).s,
                      <<delivery>>)
        ELSE Returned(stored, <<delivery>>)

PgCreateDelivery(s, deliveryData, t) ==
    LET id == s.nextId.deliveries
        delivery == Merge(deliveryData,
                          [id |-> id, status |-> "pending", paymentStatus |-> "pending",
                           createdAt |-> t, updatedAt |-> t])
        drawn == [s EXCEPT !.nextId.deliveries = id + 1]
    IN  IF ~(/\ PgReferences(s.trips, deliveryData.tripId)
             /\ PgReferences(s.packages, deliveryData.packageId)
             /\ PgReferences(s.users, deliveryData.travelerId)
             /\ PgReferences(s.users, deliveryData.senderId))
        THEN Threw(drawn)
        ELSE Returned(
                [drawn EXCEPT
                    !.deliveries = Put(@, id, delivery),
                    !.packages = PgUpdateRows(@, PackageFields, deliveryData.packageId,
                                              [status |-> "matched"])],
                <<PgRow(delivery)>>)

MemUpdateDeliveryStatus(s, id, status, t) ==
    LET delivery == MemGetDelivery(s, id)
    IN  IF delivery = <<>>
        THEN Returned(s, <<>>)
        ELSE LET updatedDelivery == Merge(delivery[1], [status |-> status, updatedAt |-> t])
                 stored == [s EXCEPT !.deliveries = Put(@, id, updatedDelivery)]
                 pkg == MemGetPackage(stored, delivery[1].packageId)
             IN  IF status = "delivered" /\ pkg # <<>>
                 THEN Returned(
                        MemUpdatePackage(stored, pkg[1].id, [status |-> "delivered"]).s,
                        <<updatedDelivery>>)
                 ELSE Returned(stored, <<updatedDelivery>>)

DeliveryFields ==
    {"id", "tripId", "packageId", "travelerId", "senderId", "status",
     "paymentStatus", "createdAt", "updatedAt"}

\* PgUpdateDeliveryStatus comparing the status without regard to case.
PgUpdateDeliveryStatus_AnyCase(s, id, status, t) ==
    LET table == [k \in DOMAIN s.deliveries |->
                    IF s.deliveries[k].id = id
                    THEN [s.deliveries[k] EXCEPT !.status = status, !.updatedAt = t]
                    ELSE s.deliveries[k]]
        rows == IF \E k \in DOMAIN table : table[k].id = id
                THEN <<table[CHOOSE k \in DOMAIN table : table[k].id = id]>> ELSE <<>>
        stored == [s EXCEPT !.deliveries = table]
    IN  IF status \in {"delivered", "Delivered"} /\ rows # <<>>
        THEN Returned(
                [stored EXCEPT
                    !.packages = [k \in DOMAIN @ |->
                                    IF @[k].id = rows[1].packageId
                                    THEN [@[k] EXCEPT !.status = "delivered"]
                                    ELSE @[k]]],
                rows)
        ELSE Returned(stored, rows)

PgUpdateDeliveryStatus(s, id, status, t) ==
    LET table == PgUpdateRows(s.deliveries, DeliveryFields, id,
                              [status |-> status, updated_at |-> t])
        rows == PgRows(PgSelectById(table, id))
        stored == [s EXCEPT !.deliveries = table]
    IN  IF status = "delivered" /\ rows # <<>>
        THEN Returned(
                [stored EXCEPT
                    !.packages = PgUpdateRows(@, PackageFields, rows[1].package_id,
                                              [status |-> "delivered"])],
                rows)
        ELSE Returned(stored, rows)

\* MemUpdatePaymentStatus writing the value into the status as well
MemUpdatePaymentStatus_AlsoStatus(s, id, paymentStatus, t) ==
    LET delivery == MemGetDelivery(s, id)
    IN  IF delivery = <<>>
        THEN Returned(s, <<>>)
        ELSE LET updatedDelivery ==
                    Merge(delivery[1], [paymentStatus |-> paymentStatus,
                                        status |-> paymentStatus, updatedAt |-> t])
             IN  Returned([s EXCEPT !.deliveries = Put(@, id, updatedDelivery)],
                          <<updatedDelivery>>)

MemUpdatePaymentStatus(s, id, paymentStatus, t) ==
    LET delivery == MemGetDelivery(s, id)
    IN  IF delivery = <<>>
        THEN Returned(s, <<>>)
        ELSE LET updatedDelivery ==
                    Merge(delivery[1], [paymentStatus |-> paymentStatus, updatedAt |-> t])
             IN  Returned([s EXCEPT !.deliveries = Put(@, id, updatedDelivery)],
                          <<updatedDelivery>>)

PgUpdatePaymentStatus(s, id, paymentStatus, t) ==
    LET table == PgUpdateRows(s.deliveries, DeliveryFields, id,
                              [payment_status |-> paymentStatus, updated_at |-> t])
    IN  Returned([s EXCEPT !.deliveries = table], PgRows(PgSelectById(table, id)))

----------------------------------------------------------------------------
(* Reviews *)

\* Array.filter(review => review.revieweeId === userId), in insertion order
ReviewsOfReviewee(table, userId) ==
    {k \in DOMAIN table : table[k].revieweeId = userId}

\* userReviews.reduce((sum, review) => sum + review.rating, 0)
RECURSIVE SumRatings(_, _)
SumRatings(table, ks) ==
    IF ks = {} THEN 0
    ELSE LET k == CHOOSE x \in ks : TRUE
         IN  table[k].rating + SumRatings(table, ks \ {k})

\* totalRating / userReviews.length
Quotient(total, length) == [num |-> total, den |-> length]

MemCreateReview(s, reviewData) ==
    LET id == s.nextId.reviews
        review == Merge(reviewData, [id |-> id])
        stored == [s EXCEPT !.nextId.reviews = id + 1, !.reviews = Put(@, id, review)]
        user == MemGetUser(stored, reviewData.revieweeId)
    IN  IF user # <<>>
        THEN LET userReviews == ReviewsOfReviewee(stored.reviews, reviewData.revieweeId)
                 totalRating == SumRatings(stored.reviews, userReviews)
                 newRating == Quotient(totalRating, Cardinality(userReviews))
                 updatedUser == Merge(user[1], [rating |-> newRating,
                                                reviewCount |-> Cardinality(userReviews)])
             IN  Returned([stored EXCEPT !.users = Put(@, user[1].id, updatedUser)],
                          <<review>>)
        ELSE Returned(stored, <<review>>)

UserFields == {"id", "isVerified", "verificationStatus", "rating", "reviewCount"}

PgCreateReview(s, reviewData) ==
    LET id == s.nextId.reviews
        review == Merge(reviewData, [id |-> id])
        drawn == [s EXCEPT !.nextId.reviews = id + 1]
    IN  IF ~(/\ PgReferences(s.users, reviewData.reviewerId)
             /\ PgReferences(s.users, reviewData.revieweeId)
             /\ (reviewData.deliveryId = Null
                    \/ PgReferences(s.deliveries, reviewData.deliveryId)))
        THEN Threw(drawn)
        ELSE LET stored == [drawn EXCEPT !.reviews = Put(@, id, review)]
                 userReviews == ReviewsOfReviewee(stored.reviews, reviewData.revieweeId)
                 total == SumRatings(stored.reviews, userReviews)
                 newRating == Quotient(total, Cardinality(userReviews))
             IN  Returned(
                    [stored EXCEPT
                        !.users = PgUpdateRows(@, UserFields, reviewData.revieweeId,
                                     [rating |-> newRating,
                                      review_count |-> Cardinality(userReviews)])],
                    <<PgRow(review)>>)

----------------------------------------------------------------------------
(* `storage`: the implementation chosen at process start *)

GetUser(s, id) == IF backend = "mem" THEN MemGetUser(s, id) ELSE PgGetUser(s, id)

CreateUser(s) == IF backend = "mem" THEN MemCreateUser(s) ELSE PgCreateUser(s)

GetTrip(s, id) == IF backend = "mem" THEN MemGetTrip(s, id) ELSE PgGetTrip(s, id)

CreateTrip(s, tripData, userId) ==
    IF backend = "mem" THEN MemCreateTrip(s, tripData, userId)
    ELSE PgCreateTrip(s, tripData, userId)

UpdateTrip(s, id, tripData) ==
    IF backend = "mem" THEN MemUpdateTrip(s, id, tripData)
    ELSE PgUpdateTrip(s, id, tripData)

CreateReview(s, reviewData) ==
    IF backend = "mem" THEN MemCreateReview(s, reviewData) ELSE PgCreateReview(s, reviewData)

GetTrips(s, filters) ==
    IF backend = "mem" THEN MemGetTrips(s, filters) ELSE PgGetTrips(s, filters)

GetPackages(s, filters) ==
    IF backend = "mem" THEN MemGetPackages(s, filters) ELSE PgGetPackages(s, filters)

GetPackage(s, id) ==
    IF backend = "mem" THEN MemGetPackage(s, id) ELSE PgGetPackage(s, id)

CreatePackage(s, packageData, userId) ==
    IF backend = "mem" THEN MemCreatePackage(s, packageData, userId)
    ELSE PgCreatePackage(s, packageData, userId)

UpdatePackage(s, id, packageData) ==
    IF backend = "mem" THEN MemUpdatePackage(s, id, packageData)
    ELSE PgUpdatePackage(s, id, packageData)

GetDelivery(s, id) ==
    IF backend = "mem" THEN MemGetDelivery(s, id) ELSE PgGetDelivery(s, id)

CreateDelivery(s, deliveryData, t) ==
    IF backend = "mem" THEN MemCreateDelivery(s, deliveryData, t)
    ELSE PgCreateDelivery(s, deliveryData, t)

UpdateDeliveryStatus(s, id, status, t) ==
    IF backend = "mem" THEN MemUpdateDeliveryStatus(s, id, status, t)
    ELSE PgUpdateDeliveryStatus(s, id, status, t)

UpdatePaymentStatus(s, id, paymentStatus, t) ==
    IF backend = "mem" THEN MemUpdatePaymentStatus(s, id, paymentStatus, t)
    ELSE PgUpdatePaymentStatus(s, id, paymentStatus, t)

----------------------------------------------------------------------------
(* The store the specifications start from: MemStorage's constructor (empty   *)
(* maps, counters at 1) or empty tables, then three registered users and one  *)
(* trip of user 1.                                                            *)

JFK == <<"J", "F", "K">>
ADD == <<"A", "d", "d">>
NYC == <<"N", "y">>
LAX == <<"L", "A", "X">>
BOX == <<"b", "o", "x">>
DOCS == <<"d", "o", "c">>

TripToAddis ==
    [departureAirport |-> JFK, destinationCity |-> ADD, departureDate |-> 2,
     arrivalDate |-> 2, availableWeight |-> 10]

Parcel ==
    [senderCity |-> NYC, receiverCity |-> ADD, packageType |-> BOX, weight |-> 5,
     deliveryDeadline |-> Null]

Constructed ==
    [users |-> EmptyTable, trips |-> EmptyTable, packages |-> EmptyTable,
     deliveries |-> EmptyTable, messages |-> EmptyTable, reviews |-> EmptyTable,
     nextId |-> [users |-> 1, trips |-> 1, packages |-> 1, deliveries |-> 1,
                 messages |-> 1, reviews |-> 1]]

Registered == CreateUser(CreateUser(CreateUser(Constructed).s).s).s

WithTrip == CreateTrip(Registered, TripToAddis, 1).s

NoCall == [op |-> "none", arg |-> <<>>, ok |-> TRUE, rows |-> <<>>]

\* No storage call is in flight, no WebSocket client is connected
NoCalls == <<>>

NoClients == <<>>

Called(op, arg, r) == [op |-> op, arg |-> arg, ok |-> r.ok, rows |-> r.rows]

Tick ==
    /\ now < MaxNow
    /\ now' = now + 1
    /\ UNCHANGED <<backend, users, trips, packages, deliveries, messages, reviews,
                   nextId, resp, calls, clients>>

----------------------------------------------------------------------------
(* SpecDelivery: the storage interface's package and delivery operations,     *)
(* called one after another.                                                  *)

\* The ids a caller passes: those stored, and one that is not.
Known(table, next) == {table[k].id : k \in DOMAIN table} \cup {next}

DeliveryInputs ==
    {[tripId |-> 1, packageId |-> p, travelerId |-> 1, senderId |-> 2] :
        p \in Known(packages, nextId.packages)}

MatchRows == (nextId.packages - 1) + (nextId.deliveries - 1)

StatusInputs == {"delivered", "Delivered"}

PaymentInputs == {"delivered"}

StatusBodies == {[status |-> "lost"]}

InitDelivery ==
    /\ backend \in Backends
    /\ users = WithTrip.users
    /\ trips = WithTrip.trips
    /\ packages = WithTrip.packages
    /\ deliveries = WithTrip.deliveries
    /\ messages = WithTrip.messages
    /\ reviews = WithTrip.reviews
    /\ nextId = WithTrip.nextId
    /\ now = 0
    /\ resp = NoCall
    /\ calls = NoCalls
    /\ clients = NoClients

CallCreatePackage ==
    /\ MatchRows < MaxMatchRows
    /\ LET r == CreatePackage(Store, Parcel, 2)
       IN  Install(r.s) /\ resp' = Called("createPackage", [userId |-> 2], r)
    /\ UNCHANGED <<backend, now, calls, clients>>

CallUpdatePackage ==
    \E id \in Known(packages, nextId.packages), body \in StatusBodies :
        /\ LET r == UpdatePackage(Store, id, body)
           IN  Install(r.s) /\ resp' = Called("updatePackage", [id |-> id, body |-> body], r)
        /\ UNCHANGED <<backend, now, calls, clients>>

CallCreateDelivery ==
    \E deliveryData \in DeliveryInputs :
        /\ MatchRows < MaxMatchRows
        /\ LET r == CreateDelivery(Store, deliveryData, now)
           IN  Install(r.s) /\ resp' = Called("createDelivery", deliveryData, r)
        /\ UNCHANGED <<backend, now, calls, clients>>

CallUpdateDeliveryStatus ==
    \E id \in Known(deliveries, nextId.deliveries), status \in StatusInputs :
        /\ LET r == UpdateDeliveryStatus(Store, id, status, now)
           IN  /\ Install(r.s)
               /\ resp' = Called("updateDeliveryStatus", [id |-> id, status |-> status], r)
        /\ UNCHANGED <<backend, now, calls, clients>>

CallUpdatePaymentStatus ==
    \E id \in Known(deliveries, nextId.deliveries), paymentStatus \in PaymentInputs :
        /\ LET r == UpdatePaymentStatus(Store, id, paymentStatus, now)
           IN  /\ Install(r.s)
               /\ resp' = Called("updatePaymentStatus",
                                 [id |-> id, paymentStatus |-> paymentStatus], r)
        /\ UNCHANGED <<backend, now, calls, clients>>

NextDelivery ==
    \/ CallCreatePackage
    \/ CallUpdatePackage
    \/ CallCreateDelivery
    \/ CallUpdateDeliveryStatus
    \/ CallUpdatePaymentStatus

SpecDelivery == InitDelivery /\ [][NextDelivery]_vars

\* C1: once createDelivery for a stored package P has completed, getPackage(P.id)
\* has status "matched", whatever P's status was before, with either storage.
C1_CreateDeliveryMatchesPackage ==
    (resp.op = "createDelivery" /\ resp.ok) =>
        LET pkg == GetPackage(Store, resp.arg.packageId)
        IN  pkg # <<>> => pkg[1].status = "matched"

\* createDelivery has just completed for a package that an earlier delivery had
\* already brought to "delivered".
C1_Witness ==
    /\ resp.op = "createDelivery" /\ resp.ok
    /\ GetPackage(Store, resp.arg.packageId) # <<>>
    /\ \E d \in DOMAIN deliveries :
        /\ deliveries[d].id # resp.rows[1].id
        /\ deliveries[d].packageId = resp.arg.packageId
        /\ deliveries[d].status = "delivered"

\* C2: updateDeliveryStatus(id, s) on a stored delivery sets the linked package's
\* status to "delivered" when s is exactly "delivered"; for any other s no package
\* changes.
C2_OnlyDeliveredPropagates ==
    [][(resp'.op = "updateDeliveryStatus" /\ GetDelivery(Store, resp'.arg.id) # <<>>) =>
        LET key == CHOOSE k \in DOMAIN deliveries : deliveries[k].id = resp'.arg.id
            linked == deliveries[key].packageId
        IN  IF resp'.arg.status = "delivered"
            THEN \A p \in DOMAIN packages' :
                    packages'[p].id = linked => packages'[p].status = "delivered"
            ELSE packages' = packages]_vars

\* updateDeliveryStatus(id, "Delivered") has just run on a stored delivery whose
\* package is "matched", while another package is stored too.
C2_Witness ==
    /\ resp.op = "updateDeliveryStatus" /\ resp.arg.status = "Delivered"
    /\ resp.rows # <<>>
    /\ \E p, q \in DOMAIN packages :
        /\ p # q
        /\ \E d \in DOMAIN deliveries :
            deliveries[d].id = resp.arg.id /\ deliveries[d].packageId = packages[p].id
        /\ packages[p].status = "matched"

----------------------------------------------------------------------------
(* SpecReview: createReview called again and again on a store of three users  *)
(* who have no reviews yet.                                                   *)

Ratings == {-1, 2, 5}

ReviewInputs ==
    {[reviewerId |-> 1, revieweeId |-> e, deliveryId |-> Null, rating |-> r] :
        e \in Known(users, nextId.users) \ {1}, r \in Ratings}

InitReview ==
    /\ backend \in Backends
    /\ users = Registered.users
    /\ trips = Registered.trips
    /\ packages = Registered.packages
    /\ deliveries = Registered.deliveries
    /\ messages = Registered.messages
    /\ reviews = Registered.reviews
    /\ nextId = Registered.nextId
    /\ now = 0
    /\ resp = NoCall
    /\ calls = NoCalls
    /\ clients = NoClients

CallCreateReview ==
    \E reviewData \in ReviewInputs :
        /\ nextId.reviews <= MaxReviews
        /\ LET r == CreateReview(Store, reviewData)
           IN  Install(r.s) /\ resp' = Called("createReview", reviewData, r)
        /\ UNCHANGED <<backend, now, calls, clients>>

NextReview == CallCreateReview

SpecReview == InitReview /\ [][NextReview]_vars

\* The same number: a.num / a.den = total / count
IsQuotient(a, total, count) == a.den # 0 /\ a.num * count = total * a.den

\* C3: after N >= 1 createReview calls for reviewee U (calls for other reviewees in
\* between), getUser(U).rating is the mean of the N ratings and
\* getUser(U).reviewCount is N.
C3_RatingIsMeanOfReviews ==
    \A u \in {users[k].id : k \in DOMAIN users} :
        LET mine == ReviewsOfReviewee(reviews, u)
            got == GetUser(Store, u)[1]
        IN  mine # {} =>
                /\ IsQuotient(Prop(got, "rating"), SumRatings(reviews, mine),
                              Cardinality(mine))
                /\ Prop(got, "reviewCount") = Cardinality(mine)

----------------------------------------------------------------------------
(* SpecTrips: trips are created and updated, and getTrips is called with every *)
(* combination of filters.                                                     *)

TripInputs ==
    {TripToAddis,
     [departureAirport |-> LAX, destinationCity |-> ADD, departureDate |-> 1,
      arrivalDate |-> 1, availableWeight |-> 5],
     [departureAirport |-> JFK, destinationCity |-> NYC, departureDate |-> 1,
      arrivalDate |-> 2, availableWeight |-> 10]}

\* What a caller may put under a key of the filters, or leave out
OneOf(key, values) == {EmptyBody} \cup {(key :> v) : v \in values}

TripFilters ==
    {Merge(Merge(a, c), Merge(d, w)) :
        a \in OneOf("departureAirport", {<<"j", "F">>, <<"_">>, <<>>}),
        c \in OneOf("destinationCity", {<<"a", "D">>}),
        d \in OneOf("departureDate", {2}),
        w \in OneOf("availableWeight", {10})}

\* Partial<Trip> as the caller of either storage may key it
ActiveBodies == {[isActive |-> FALSE], [is_active |-> FALSE]}

InitTrips ==
    /\ backend \in Backends
    /\ users = Registered.users
    /\ trips = Registered.trips
    /\ packages = Registered.packages
    /\ deliveries = Registered.deliveries
    /\ messages = Registered.messages
    /\ reviews = Registered.reviews
    /\ nextId = Registered.nextId
    /\ now = 0
    /\ resp = NoCall
    /\ calls = NoCalls
    /\ clients = NoClients

CallCreateTrip ==
    \E tripData \in TripInputs :
        /\ nextId.trips <= MaxTrips
        /\ LET r == CreateTrip(Store, tripData, 1)
           IN  Install(r.s) /\ resp' = Called("createTrip", tripData, r)
        /\ UNCHANGED <<backend, now, calls, clients>>

CallUpdateTrip ==
    \E id \in Known(trips, nextId.trips), body \in ActiveBodies :
        /\ LET r == UpdateTrip(Store, id, body)
           IN  Install(r.s) /\ resp' = Called("updateTrip", [id |-> id, body |-> body], r)
        /\ UNCHANGED <<backend, now, calls, clients>>

CallGetTrips ==
    \E filters \in TripFilters :
        /\ LET r == GetTrips(Store, filters)
           IN  Install(r.s) /\ resp' = Called("getTrips", filters, r)
        /\ UNCHANGED <<backend, now, calls, clients>>

NextTrips == CallCreateTrip \/ CallUpdateTrip \/ CallGetTrips

SpecTrips == InitTrips /\ [][NextTrips]_vars

\* text contains part, letter case aside
ContainsIgnoringCase(text, part) ==
    \E i \in 0..(Len(text) - Len(part)) :
        \A j \in 1..Len(part) : ToLowerChar(text[i + j]) = ToLowerChar(part[j])

\* C4: getTrips(filters) returns exactly the stored trips that are active and
\* satisfy every supplied predicate: airport and city as case-insensitive substring,
\* departureDate on or after, availableWeight at least; an absent key excludes none.
C4_GetTripsIsExact ==
    resp.op = "getTrips" =>
        {row.id : row \in resp.rows} =
            {trips[k].id : k \in
                {x \in DOMAIN trips :
                    /\ trips[x].isActive
                    /\ "departureAirport" \in DOMAIN resp.arg =>
                        ContainsIgnoringCase(trips[x].departureAirport,
                                             resp.arg.departureAirport)
                    /\ "destinationCity" \in DOMAIN resp.arg =>
                        ContainsIgnoringCase(trips[x].destinationCity,
                                             resp.arg.destinationCity)
                    /\ "departureDate" \in DOMAIN resp.arg =>
                        trips[x].departureDate >= resp.arg.departureDate
                    /\ "availableWeight" \in DOMAIN resp.arg =>
                        trips[x].availableWeight >= resp.arg.availableWeight}}

-----------------------------------------------------------------------------
(* getPackages under every combination of its filters *)

PackageInputs ==
    {Parcel,
     [senderCity |-> LAX, receiverCity |-> ADD, packageType |-> DOCS, weight |-> 2,
      deliveryDeadline |-> 2],
     [senderCity |-> NYC, receiverCity |-> NYC, packageType |-> BOX, weight |-> 5,
      deliveryDeadline |-> 1]}

PackageFilters ==
    {Merge(Merge(Merge(a, c), Merge(p, w)), d) :
        a \in OneOf("senderCity", {<<"n", "Y">>, <<"_">>}),
        c \in OneOf("receiverCity", {<<"a", "D">>}),
        p \in OneOf("packageType", {BOX}),
        w \in OneOf("weight", {2}),
        d \in OneOf("deliveryDeadline", {2})}

InitPackages ==
    /\ backend \in Backends
    /\ users = Registered.users
    /\ trips = Registered.trips
    /\ packages = Registered.packages
    /\ deliveries = Registered.deliveries
    /\ messages = Registered.messages
    /\ reviews = Registered.reviews
    /\ nextId = Registered.nextId
    /\ now = 0
    /\ resp = NoCall
    /\ calls = NoCalls
    /\ clients = NoClients

CallSendPackage ==
    \E packageData \in PackageInputs :
        /\ nextId.packages <= MaxPackages
        /\ LET r == CreatePackage(Store, packageData, 2)
           IN  Install(r.s) /\ resp' = Called("createPackage", packageData, r)
        /\ UNCHANGED <<backend, now, calls, clients>>

CallWithdrawPackage ==
    \E id \in Known(packages, nextId.packages), body \in ActiveBodies :
        /\ LET r == UpdatePackage(Store, id, body)
           IN  Install(r.s) /\ resp' = Called("updatePackage", [id |-> id, body |-> body], r)
        /\ UNCHANGED <<backend, now, calls, clients>>

CallGetPackages ==
    \E filters \in PackageFilters :
        /\ LET r == GetPackages(Store, filters)
           IN  Install(r.s) /\ resp' = Called("getPackages", filters, r)
        /\ UNCHANGED <<backend, now, calls, clients>>

NextPackages == CallSendPackage \/ CallWithdrawPackage \/ CallGetPackages

SpecPackages == InitPackages /\ [][NextPackages]_vars

\* The stored packages that are active and pass every supplied filter; a package
\* without a deadline counts as passing a deadline filter when lenient is TRUE.
Passing(filters, lenient) ==
    {packages[k].id : k \in
        {x \in DOMAIN packages :
            /\ packages[x].isActive
            /\ "senderCity" \in DOMAIN filters =>
                ContainsIgnoringCase(packages[x].senderCity, filters.senderCity)
            /\ "receiverCity" \in DOMAIN filters =>
                ContainsIgnoringCase(packages[x].receiverCity, filters.receiverCity)
            /\ "packageType" \in DOMAIN filters =>
                packages[x].packageType = filters.packageType
            /\ "weight" \in DOMAIN filters => packages[x].weight <= filters.weight
            /\ "deliveryDeadline" \in DOMAIN filters =>
                IF packages[x].deliveryDeadline = Null
                THEN lenient
                ELSE packages[x].deliveryDeadline >= filters.deliveryDeadline}}

\* C5: getPackages(filters) returns only active stored packages that satisfy every
\* supplied filter (cities as case-insensitive substring, packageType equal, weight
\* at most, deadline on or after), and every such package; an absent key excludes none.
\* A package without a deadline may be counted either way under a deadline filter.
C5_GetPackagesIsExact ==
    resp.op = "getPackages" =>
        /\ {row.id : row \in resp.rows} \subseteq Passing(resp.arg, TRUE)
        /\ Passing(resp.arg, FALSE) \subseteq {row.id : row \in resp.rows}

-----------------------------------------------------------------------------
(* Messages *)

\* The ways of laying the rows out one after another
Arrangements(rows) ==
    {seq \in [1..Cardinality(rows) -> rows] :
        \A i, j \in 1..Cardinality(rows) : i # j => seq[i] # seq[j]}

\* Array.from(map.values()).filter(...).sort(compare): the Map iterates in insertion
\* order, which is the order of the ids, and the sort is stable.
MemSort(rows, compare(_, _)) ==
    CHOOSE seq \in Arrangements(rows) :
        \A i, j \in 1..Cardinality(rows) :
            i < j => \/ compare(seq[i], seq[j]) < 0
                     \/ compare(seq[i], seq[j]) = 0 /\ seq[i].id < seq[j].id

\* ORDER BY with no further key: rows that compare equal come in any order.
PgOrderBy(rows, compare(_, _)) ==
    {[i \in DOMAIN seq |-> PgRow(seq[i])] : seq \in
        {x \in Arrangements(rows) :
            \A i, j \in 1..Cardinality(rows) : i < j => compare(x[i], x[j]) <= 0}}

Rows(table) == {table[k] : k \in DOMAIN table}

MemGetMessagesBetweenUsers(s, userId1, userId2) ==
    LET Compare(a, b) == a.createdAt - b.createdAt
    IN  {Returned(s, MemSort({message \in Rows(s.messages) :
                                \/ message.senderId = userId1 /\ message.receiverId = userId2
                                \/ message.senderId = userId2 /\ message.receiverId = userId1},
                             Compare))}

\* PgGetMessagesBetweenUsers with WHERE sender_id = $1 AND receiver_id = $2 only
PgGetMessagesBetweenUsers_OneWay(s, userId1, userId2) ==
    LET Compare(a, b) == a.createdAt - b.createdAt
    IN  {Returned(s, rows) : rows \in
            PgOrderBy({message \in Rows(s.messages) :
                            message.senderId = userId1 /\ message.receiverId = userId2},
                      Compare)}

PgGetMessagesBetweenUsers(s, userId1, userId2) ==
    LET Compare(a, b) == a.createdAt - b.createdAt
    IN  {Returned(s, rows) : rows \in
            PgOrderBy({message \in Rows(s.messages) :
                            \/ message.senderId = userId1 /\ message.receiverId = userId2
                            \/ message.senderId = userId2 /\ message.receiverId = userId1},
                      Compare)}

\* MemGetMessagesByUserId sorting with a.createdAt - b.createdAt
MemGetMessagesByUserId_Ascending(s, userId) ==
    LET Compare(a, b) == a.createdAt - b.createdAt
    IN  {Returned(s, MemSort({message \in Rows(s.messages) :
                                message.senderId = userId \/ message.receiverId = userId},
                             Compare))}

MemGetMessagesByUserId(s, userId) ==
    LET Compare(a, b) == b.createdAt - a.createdAt
    IN  {Returned(s, MemSort({message \in Rows(s.messages) :
                                message.senderId = userId \/ message.receiverId = userId},
                             Compare))}

PgGetMessagesByUserId(s, userId) ==
    LET Compare(a, b) == b.createdAt - a.createdAt
    IN  {Returned(s, rows) : rows \in
            PgOrderBy({message \in Rows(s.messages) :
                            message.senderId = userId \/ message.receiverId = userId},
                      Compare)}

MemCreateMessage(s, messageData, t) ==
    LET id == s.nextId.messages
        message == Merge(messageData, [id |-> id, isRead |-> FALSE, createdAt |-> t])
    IN  Returned([s EXCEPT !.nextId.messages = id + 1, !.messages = Put(@, id, message)],
                 <<message>>)

PgCreateMessage(s, messageData, t) ==
    LET id == s.nextId.messages
        message == [id |-> id, senderId |-> messageData.senderId,
                    receiverId |-> messageData.receiverId, content |-> messageData.content,
                    isRead |-> FALSE, createdAt |-> t]
        drawn == [s EXCEPT !.nextId.messages = id + 1]
    IN  IF ~(/\ PgReferences(s.users, messageData.senderId)
             /\ PgReferences(s.users, messageData.receiverId))
        THEN Threw(drawn)
        ELSE Returned([drawn EXCEPT !.messages = Put(@, id, message)], <<PgRow(message)>>)

GetMessagesBetweenUsers(s, userId1, userId2) ==
    IF backend = "mem"
    THEN MemGetMessagesBetweenUsers(s, userId1, userId2)
    ELSE PgGetMessagesBetweenUsers(s, userId1, userId2)

GetMessagesByUserId(s, userId) ==
    IF backend = "mem" THEN MemGetMessagesByUserId(s, userId)
    ELSE PgGetMessagesByUserId(s, userId)

CreateMessage(s, messageData, t) ==
    IF backend = "mem" THEN MemCreateMessage(s, messageData, t)
    ELSE PgCreateMessage(s, messageData, t)

-----------------------------------------------------------------------------
(* SpecMessages: messages written while the clock runs, and the two listings *)

HI == <<"h", "i">>

MessageInputs ==
    {[senderId |-> p[1], receiverId |-> p[2], content |-> HI] :
        p \in {<<1, 2>>, <<2, 1>>, <<3, 2>>, <<1, 1>>}}

InitMessages ==
    /\ backend \in Backends
    /\ users = Registered.users
    /\ trips = Registered.trips
    /\ packages = Registered.packages
    /\ deliveries = Registered.deliveries
    /\ messages = Registered.messages
    /\ reviews = Registered.reviews
    /\ nextId = Registered.nextId
    /\ now = 0
    /\ resp = NoCall
    /\ calls = NoCalls
    /\ clients = NoClients

CallCreateMessage ==
    \E messageData \in MessageInputs :
        /\ nextId.messages <= MaxMessages
        /\ LET r == CreateMessage(Store, messageData, now)
           IN  Install(r.s) /\ resp' = Called("createMessage", messageData, r)
        /\ UNCHANGED <<backend, now, calls, clients>>

CallGetMessagesBetweenUsers ==
    \E userId1, userId2 \in Known(users, nextId.users) :
        \E r \in GetMessagesBetweenUsers(Store, userId1, userId2) :
            /\ Install(r.s)
            /\ resp' = Called("getMessagesBetweenUsers",
                              [userId1 |-> userId1, userId2 |-> userId2], r)
            /\ UNCHANGED <<backend, now, calls, clients>>

CallGetMessagesByUserId ==
    \E userId \in Known(users, nextId.users) :
        \E r \in GetMessagesByUserId(Store, userId) :
            /\ Install(r.s)
            /\ resp' = Called("getMessagesByUserId", [userId |-> userId], r)
            /\ UNCHANGED <<backend, now, calls, clients>>

NextMessages ==
    \/ CallCreateMessage
    \/ CallGetMessagesBetweenUsers
    \/ CallGetMessagesByUserId
    \/ Tick

SpecMessages == InitMessages /\ [][NextMessages]_vars

Ids(rows) == {rows[i].id : i \in DOMAIN rows}

StoredMessage(id) == messages[CHOOSE k \in DOMAIN messages : messages[k].id = id]

\* The rows name stored messages, each once, none created before the one ahead of it
Ascending(rows) ==
    /\ Cardinality(Ids(rows)) = Len(rows)
    /\ \A i, j \in DOMAIN rows :
            i < j => StoredMessage(rows[i].id).createdAt <= StoredMessage(rows[j].id).createdAt

Descending(rows) ==
    /\ Cardinality(Ids(rows)) = Len(rows)
    /\ \A i, j \in DOMAIN rows :
            i < j => StoredMessage(rows[i].id).createdAt >= StoredMessage(rows[j].id).createdAt

Exchanged(a, b) ==
    {m.id : m \in {x \in Rows(messages) :
                        \/ x.senderId = a /\ x.receiverId = b
                        \/ x.senderId = b /\ x.receiverId = a}}

\* C6: getMessagesBetweenUsers(A,B) and getMessagesBetweenUsers(B,A) return the same
\* messages, exactly those sent from A to B or from B to A, by ascending creation time.
C6_BetweenUsersIsSymmetric ==
    resp.op = "getMessagesBetweenUsers" =>
        LET a == resp.arg.userId1
            b == resp.arg.userId2
        IN  /\ Ids(resp.rows) = Exchanged(a, b)
            /\ Ascending(resp.rows)
            /\ \A r \in GetMessagesBetweenUsers(Store, b, a) :
                    Ids(r.rows) = Ids(resp.rows) /\ Ascending(r.rows)

\* C6's case: A and B differ, messages went both ways at different times, and a
\* message of another conversation is stored as well.
C6_Witness ==
    /\ resp.op = "getMessagesBetweenUsers"
    /\ resp.arg.userId1 # resp.arg.userId2
    /\ Len(resp.rows) >= 2
    /\ \E i, j \in DOMAIN resp.rows :
            /\ StoredMessage(resp.rows[i].id).senderId = resp.arg.userId1
            /\ StoredMessage(resp.rows[j].id).senderId = resp.arg.userId2
            /\ StoredMessage(resp.rows[i].id).createdAt
                    # StoredMessage(resp.rows[j].id).createdAt
    /\ \E m \in Rows(messages) : m.id \notin Ids(resp.rows)

\* C7: getMessagesByUserId(A) returns every stored message with A as sender or
\* receiver and no other, by descending creation time; the part of it exchanged
\* with B is the set of messages getMessagesBetweenUsers(A,B) returns.
C7_ByUserIdIsWholeInbox ==
    resp.op = "getMessagesByUserId" =>
        LET a == resp.arg.userId
            Counterpart(m) == IF m.senderId = a THEN m.receiverId ELSE m.senderId
        IN  /\ Ids(resp.rows) =
                    {m.id : m \in {x \in Rows(messages) : x.senderId = a \/ x.receiverId = a}}
            /\ Descending(resp.rows)
            /\ \A b \in Known(users, nextId.users) :
                    \A r \in GetMessagesBetweenUsers(Store, a, b) :
                        Ids(r.rows) =
                            {id \in Ids(resp.rows) : Counterpart(StoredMessage(id)) = b}

\* C7's case: A's listing holds messages with two counterparts, created at different
\* times, and a message A has no part in is stored.
C7_Witness ==
    /\ resp.op = "getMessagesByUserId"
    /\ \E i, j \in DOMAIN resp.rows :
            /\ StoredMessage(resp.rows[i].id).senderId = resp.arg.userId
            /\ StoredMessage(resp.rows[j].id).receiverId = resp.arg.userId
            /\ StoredMessage(resp.rows[i].id).receiverId
                    # StoredMessage(resp.rows[j].id).senderId
            /\ StoredMessage(resp.rows[i].id).createdAt
                    # StoredMessage(resp.rows[j].id).createdAt
    /\ \E m \in Rows(messages) : m.id \notin Ids(resp.rows)

-----------------------------------------------------------------------------
(* Verification of a user *)

Spread(obj, key) == IF key \in DOMAIN obj THEN obj[key] ELSE EmptyBody

Every(obj) == \A k \in DOMAIN obj : obj[k] = TRUE

\* MemUpdateUserVerification that stores a fresh user when the id is unknown
MemUpdateUserVerification_Upsert(s, userId, verificationData) ==
    LET user == IF MemGetUser(s, userId) = <<>> THEN <<NewUser(userId)>>
                ELSE MemGetUser(s, userId)
        updatedVerificationStatus == Merge(user[1].verificationStatus, verificationData)
        updatedUser ==
            Merge(user[1], [verificationStatus |-> updatedVerificationStatus,
                            isVerified |-> Every(updatedVerificationStatus)])
    IN  Returned([s EXCEPT !.users = Put(@, userId, updatedUser)], <<updatedUser>>)

MemUpdateUserVerification(s, userId, verificationData) ==
    LET user == MemGetUser(s, userId)
    IN  IF user = <<>>
        THEN Threw(s)
        ELSE LET updatedVerificationStatus ==
                    Merge(user[1].verificationStatus, verificationData)
                 updatedUser ==
                    Merge(user[1], [verificationStatus |-> updatedVerificationStatus,
                                    isVerified |-> Every(updatedVerificationStatus)])
             IN  Returned([s EXCEPT !.users = Put(@, userId, updatedUser)], <<updatedUser>>)

\* user is the row of SELECT *: its verificationStatus is not a key of it.
PgUpdateUserVerification(s, userId, verificationData) ==
    LET user == PgGetUser(s, userId)
    IN  IF user = <<>>
        THEN Threw(s)
        ELSE LET updated == Merge(Spread(user[1], "verificationStatus"), verificationData)
                 table == PgUpdateRows(s.users, UserFields, userId,
                                       [verification_status |-> updated,
                                        is_verified |-> Every(updated)])
             IN  Returned([s EXCEPT !.users = table], PgRows(PgSelectById(table, userId)))

UpdateUserVerification(s, userId, verificationData) ==
    IF backend = "mem" THEN MemUpdateUserVerification(s, userId, verificationData)
    ELSE PgUpdateUserVerification(s, userId, verificationData)

-----------------------------------------------------------------------------
(* The request layer: the handlers of routes.ts that change the store.  A     *)
(* request carries the id of its session's user (NoSession: none) and a body. *)

NoSession == 0

IsAuthenticated(user) == user # NoSession

Respond(s, code, rows) == [s |-> s, code |-> code, rows |-> rows]

\* What a storage call's outcome becomes: its rows with the code, or the catch's 500
Json(r, code) == IF r.ok THEN Respond(r.s, code, r.rows) ELSE Respond(r.s, 500, <<>>)

\* z.object(...).parse keeps the keys of the schema and drops the others
Strip(body, keys) == [k \in keys \cap DOMAIN body |-> body[k]]

IsLetter(c) == \E i \in 1..26 : c = UpperCase[i] \/ c = LowerCase[i]

\* .min(3) and /^([A-Z]{3}|...)$/i, for the texts without a blank
IsAirport(text) == Len(text) = 3 /\ \A i \in 1..3 : IsLetter(text[i])

InsertTripKeys ==
    {"departureAirport", "destinationCity", "departureDate", "arrivalDate",
     "availableWeight"}

ValidInsertTrip(body, today) ==
    /\ InsertTripKeys \subseteq DOMAIN body
    /\ IsAirport(body.departureAirport)
    /\ body.departureDate >= today
    /\ body.arrivalDate >= today

InsertPackageKeys == {"senderCity", "receiverCity", "packageType", "weight", "deliveryDeadline"}

ValidInsertPackage(body) ==
    {"senderCity", "receiverCity", "packageType", "weight"} \subseteq DOMAIN body

InsertDeliveryKeys == {"tripId", "packageId", "travelerId", "senderId"}

ValidInsertDelivery(body) == InsertDeliveryKeys \subseteq DOMAIN body

InsertMessageKeys == {"senderId", "receiverId", "content"}

ValidInsertMessage(body) == InsertMessageKeys \subseteq DOMAIN body

ValidInsertReview(body) == {"reviewerId", "revieweeId", "rating"} \subseteq DOMAIN body

PostTrips(s, user, body, t) ==
    IF ~IsAuthenticated(user) THEN Respond(s, 401, <<>>)
    ELSE IF ~ValidInsertTrip(body, t) THEN Respond(s, 400, <<>>)
    ELSE Json(CreateTrip(s, Strip(body, InsertTripKeys), user), 201)

PutTrip(s, user, tripId, body) ==
    IF ~IsAuthenticated(user) THEN Respond(s, 401, <<>>)
    ELSE LET trip == GetTrip(s, tripId)
         IN  IF trip = <<>> THEN Respond(s, 404, <<>>)
             ELSE IF Prop(trip[1], "userId") # user THEN Respond(s, 403, <<>>)
             ELSE Json(UpdateTrip(s, tripId, body), 200)

\* A deadline left out reads as undefined, which the storages treat as null.
PostPackages(s, user, body) ==
    IF ~IsAuthenticated(user) THEN Respond(s, 401, <<>>)
    ELSE IF ~ValidInsertPackage(body) THEN Respond(s, 400, <<>>)
    ELSE Json(CreatePackage(s, Merge([deliveryDeadline |-> Null],
                                     Strip(body, InsertPackageKeys)), user), 201)

\* PutPackage without the comparison of pkg.userId with req.user.id
PutPackage_AnyUser(s, user, packageId, body) ==
    IF ~IsAuthenticated(user) THEN Respond(s, 401, <<>>)
    ELSE LET pkg == GetPackage(s, packageId)
         IN  IF pkg = <<>> THEN Respond(s, 404, <<>>)
             ELSE Json(UpdatePackage(s, packageId, body), 200)

PutPackage(s, user, packageId, body) ==
    IF ~IsAuthenticated(user) THEN Respond(s, 401, <<>>)
    ELSE LET pkg == GetPackage(s, packageId)
         IN  IF pkg = <<>> THEN Respond(s, 404, <<>>)
             ELSE IF Prop(pkg[1], "userId") # user THEN Respond(s, 403, <<>>)
             ELSE Json(UpdatePackage(s, packageId, body), 200)

PostDeliveries(s, user, body, t) ==
    IF ~IsAuthenticated(user) THEN Respond(s, 401, <<>>)
    ELSE IF ~ValidInsertDelivery(body) THEN Respond(s, 400, <<>>)
    ELSE LET deliveryData == Strip(body, InsertDeliveryKeys)
         IN  IF GetPackage(s, deliveryData.packageId) = <<>>
                    \/ GetTrip(s, deliveryData.tripId) = <<>>
             THEN Respond(s, 404, <<>>)
             ELSE Json(CreateDelivery(s, deliveryData, t), 201)

\* PutDeliveryStatus without the comparison of the delivery's senderId and
\* travelerId with req.user.id
PutDeliveryStatus_AnyUser(s, user, deliveryId, body, t) ==
    IF ~IsAuthenticated(user) THEN Respond(s, 401, <<>>)
    ELSE IF "status" \notin DOMAIN body THEN Respond(s, 400, <<>>)
    ELSE LET delivery == GetDelivery(s, deliveryId)
         IN  IF delivery = <<>> THEN Respond(s, 404, <<>>)
             ELSE Json(UpdateDeliveryStatus(s, deliveryId, body.status, t), 200)

PutDeliveryStatus(s, user, deliveryId, body, t) ==
    IF ~IsAuthenticated(user) THEN Respond(s, 401, <<>>)
    ELSE IF "status" \notin DOMAIN body THEN Respond(s, 400, <<>>)
    ELSE LET delivery == GetDelivery(s, deliveryId)
         IN  IF delivery = <<>> THEN Respond(s, 404, <<>>)
             ELSE IF /\ Prop(delivery[1], "senderId") # user
                     /\ Prop(delivery[1], "travelerId") # user
             THEN Respond(s, 403, <<>>)
             ELSE Json(UpdateDeliveryStatus(s, deliveryId, body.status, t), 200)

PutDeliveryPayment(s, user, deliveryId, body, t) ==
    IF ~IsAuthenticated(user) THEN Respond(s, 401, <<>>)
    ELSE IF "paymentStatus" \notin DOMAIN body THEN Respond(s, 400, <<>>)
    ELSE LET delivery == GetDelivery(s, deliveryId)
         IN  IF delivery = <<>> THEN Respond(s, 404, <<>>)
             ELSE IF Prop(delivery[1], "senderId") # user THEN Respond(s, 403, <<>>)
             ELSE Json(UpdatePaymentStatus(s, deliveryId, body.paymentStatus, t), 200)

\* PostMessages that lets the body's senderId stand
PostMessages_BodySender(s, user, body, t) ==
    IF ~IsAuthenticated(user) THEN Respond(s, 401, <<>>)
    ELSE LET given == Merge([senderId |-> user], body)
         IN  IF ~ValidInsertMessage(given) THEN Respond(s, 400, <<>>)
             ELSE LET messageData == Strip(given, InsertMessageKeys)
                  IN  IF GetUser(s, messageData.receiverId) = <<>>
                      THEN Respond(s, 404, <<>>)
                      ELSE Json(CreateMessage(s, messageData, t), 201)

PostMessages(s, user, body, t) ==
    IF ~IsAuthenticated(user) THEN Respond(s, 401, <<>>)
    ELSE LET given == Merge(body, [senderId |-> user])
         IN  IF ~ValidInsertMessage(given) THEN Respond(s, 400, <<>>)
             ELSE LET messageData == Strip(given, InsertMessageKeys)
                  IN  IF GetUser(s, messageData.receiverId) = <<>>
                      THEN Respond(s, 404, <<>>)
                      ELSE Json(CreateMessage(s, messageData, t), 201)

\* A deliveryId left out reads as undefined, which is falsy and stored as null.
PostReviews(s, user, body) ==
    IF ~IsAuthenticated(user) THEN Respond(s, 401, <<>>)
    ELSE LET given == Merge(body, [reviewerId |-> user])
         IN  IF ~ValidInsertReview(given) THEN Respond(s, 400, <<>>)
             ELSE LET reviewData ==
                        Merge([deliveryId |-> Null],
                              Strip(given, {"reviewerId", "revieweeId", "deliveryId",
                                            "rating"}))
                      delivery == GetDelivery(s, reviewData.deliveryId)
                  IN  IF reviewData.deliveryId # Null /\ delivery = <<>>
                      THEN Respond(s, 404, <<>>)
                      ELSE IF /\ reviewData.deliveryId # Null
                              /\ Prop(delivery[1], "senderId") # user
                              /\ Prop(delivery[1], "travelerId") # user
                      THEN Respond(s, 403, <<>>)
                      ELSE IF /\ reviewData.deliveryId # Null
                              /\ reviewData.revieweeId # Prop(delivery[1], "senderId")
                              /\ reviewData.revieweeId # Prop(delivery[1], "travelerId")
                      THEN Respond(s, 400, <<>>)
                      ELSE Json(CreateReview(s, reviewData), 201)

VerificationTypes == {"idVerified", "phoneVerified", "addressVerified"}

\* PostVerification without the test of req.isAuthenticated(): reading req.user.id
\* of a request without a session throws, and the catch answers 500.
PostVerification_NoAuth(s, user, body) ==
    IF "verificationType" \notin DOMAIN body \/ body.verificationType \notin VerificationTypes
    THEN Respond(s, 400, <<>>)
    ELSE IF user = NoSession THEN Respond(s, 500, <<>>)
    ELSE LET verificationData == (body.verificationType :> TRUE)
             r == UpdateUserVerification(s, user, verificationData)
         IN  IF r.ok
             THEN Respond(r.s, 200, <<[verificationStatus |-> Prop(r.rows[1], "verificationStatus"),
                                       isVerified |-> Prop(r.rows[1], "isVerified")]>>)
             ELSE Respond(r.s, 500, <<>>)

PostVerification(s, user, body) ==
    IF ~IsAuthenticated(user) THEN Respond(s, 401, <<>>)
    ELSE IF "verificationType" \notin DOMAIN body \/ body.verificationType \notin VerificationTypes
    THEN Respond(s, 400, <<>>)
    ELSE LET verificationData == (body.verificationType :> TRUE)
             r == UpdateUserVerification(s, user, verificationData)
         IN  IF r.ok
             THEN Respond(r.s, 200, <<[verificationStatus |-> Prop(r.rows[1], "verificationStatus"),
                                       isVerified |-> Prop(r.rows[1], "isVerified")]>>)
             ELSE Respond(r.s, 500, <<>>)

-----------------------------------------------------------------------------
(* SpecHttp: requests to the ten handlers, one after another, each with or    *)
(* without a session.                                                         *)

\* User 1 has announced a trip and user 2 a package
WithParcel == CreatePackage(WithTrip, Parcel, 2).s

\* Users 1 and 2 log in; user 3 stays away
Sessions == {NoSession, 1, 2}

\* The rows the requests have inserted, or tried to insert
HttpRows ==
    (nextId.trips - WithParcel.nextId.trips)
        + (nextId.packages - WithParcel.nextId.packages)
        + (nextId.deliveries - 1) + (nextId.messages - 1) + (nextId.reviews - 1)

TripBodies == {TripToAddis, EmptyBody}

TripChanges == {[isActive |-> FALSE], EmptyBody}

PackageBodies == {Parcel, EmptyBody}

PackageChanges == {[status |-> "lost"], EmptyBody}

DeliveryBodies ==
    {[tripId |-> i, packageId |-> p, travelerId |-> 1, senderId |-> 2] :
        i \in Known(trips, nextId.trips), p \in Known(packages, nextId.packages)}
    \cup {EmptyBody}

StatusChanges == {[status |-> "delivered"], EmptyBody}

PaymentChanges == {[paymentStatus |-> "released"], EmptyBody}

MessageBodies == {[receiverId |-> 2, content |-> HI], EmptyBody}

ReviewBodies ==
    {[revieweeId |-> 1, rating |-> 5], [revieweeId |-> 1, rating |-> 5, deliveryId |-> 1],
     EmptyBody}

VerificationBodies == {[verificationType |-> "idVerified"], EmptyBody}

Request(user, body) == [user |-> user, body |-> body]

RequestOn(user, id, body) == [user |-> user, id |-> id, body |-> body]

Responded(op, arg, r) ==
    [op |-> op, arg |-> arg, ok |-> r.code < 400, rows |-> r.rows, code |-> r.code]

InitHttp ==
    /\ backend \in Backends
    /\ users = WithParcel.users
    /\ trips = WithParcel.trips
    /\ packages = WithParcel.packages
    /\ deliveries = WithParcel.deliveries
    /\ messages = WithParcel.messages
    /\ reviews = WithParcel.reviews
    /\ nextId = WithParcel.nextId
    /\ now = 0
    /\ resp = NoCall
    /\ calls = NoCalls
    /\ clients = NoClients

HttpPostTrips ==
    \E user \in Sessions, body \in TripBodies :
        /\ HttpRows < MaxHttpRows
        /\ LET r == PostTrips(Store, user, body, now)
           IN  Install(r.s) /\ resp' = Responded("POST /api/trips", Request(user, body), r)
        /\ UNCHANGED <<backend, now, calls, clients>>

HttpPutTrip ==
    \E user \in Sessions, id \in Known(trips, nextId.trips), body \in TripChanges :
        /\ LET r == PutTrip(Store, user, id, body)
           IN  /\ Install(r.s)
               /\ resp' = Responded("PUT /api/trips/:id", RequestOn(user, id, body), r)
        /\ UNCHANGED <<backend, now, calls, clients>>

HttpPostPackages ==
    \E user \in Sessions, body \in PackageBodies :
        /\ HttpRows < MaxHttpRows
        /\ LET r == PostPackages(Store, user, body)
           IN  Install(r.s) /\ resp' = Responded("POST /api/packages", Request(user, body), r)
        /\ UNCHANGED <<backend, now, calls, clients>>

HttpPutPackage ==
    \E user \in Sessions, id \in Known(packages, nextId.packages), body \in PackageChanges :
        /\ LET r == PutPackage(Store, user, id, body)
           IN  /\ Install(r.s)
               /\ resp' = Responded("PUT /api/packages/:id", RequestOn(user, id, body), r)
        /\ UNCHANGED <<backend, now, calls, clients>>

HttpPostDeliveries ==
    \E user \in Sessions, body \in DeliveryBodies :
        /\ HttpRows < MaxHttpRows
        /\ LET r == PostDeliveries(Store, user, body, now)
           IN  /\ Install(r.s)
               /\ resp' = Responded("POST /api/deliveries", Request(user, body), r)
        /\ UNCHANGED <<backend, now, calls, clients>>

HttpPutDeliveryStatus ==
    \E user \in Sessions, id \in Known(deliveries, nextId.deliveries),
       body \in StatusChanges :
        /\ LET r == PutDeliveryStatus(Store, user, id, body, now)
           IN  /\ Install(r.s)
               /\ resp' = Responded("PUT /api/deliveries/:id/status",
                                    RequestOn(user, id, body), r)
        /\ UNCHANGED <<backend, now, calls, clients>>

HttpPutDeliveryPayment ==
    \E user \in Sessions, id \in Known(deliveries, nextId.deliveries),
       body \in PaymentChanges :
        /\ LET r == PutDeliveryPayment(Store, user, id, body, now)
           IN  /\ Install(r.s)
               /\ resp' = Responded("PUT /api/deliveries/:id/payment",
                                    RequestOn(user, id, body), r)
        /\ UNCHANGED <<backend, now, calls, clients>>

HttpPostMessages ==
    \E user \in Sessions, body \in MessageBodies :
        /\ HttpRows < MaxHttpRows
        /\ LET r == PostMessages(Store, user, body, now)
           IN  Install(r.s) /\ resp' = Responded("POST /api/messages", Request(user, body), r)
        /\ UNCHANGED <<backend, now, calls, clients>>

HttpPostReviews ==
    \E user \in Sessions, body \in ReviewBodies :
        /\ HttpRows < MaxHttpRows
        /\ LET r == PostReviews(Store, user, body)
           IN  Install(r.s) /\ resp' = Responded("POST /api/reviews", Request(user, body), r)
        /\ UNCHANGED <<backend, now, calls, clients>>

HttpPostVerification ==
    \E user \in Sessions, body \in VerificationBodies :
        /\ LET r == PostVerification(Store, user, body)
           IN  /\ Install(r.s)
               /\ resp' = Responded("POST /api/verification", Request(user, body), r)
        /\ UNCHANGED <<backend, now, calls, clients>>

NextHttp ==
    \/ HttpPostTrips
    \/ HttpPutTrip
    \/ HttpPostPackages
    \/ HttpPutPackage
    \/ HttpPostDeliveries
    \/ HttpPutDeliveryStatus
    \/ HttpPutDeliveryPayment
    \/ HttpPostMessages
    \/ HttpPostReviews
    \/ HttpPostVerification

SpecHttp == InitHttp /\ [][NextHttp]_vars

WithId(table, id) == {row \in Rows(table) : row.id = id}

\* C8: after B's POST /api/deliveries linking A's trip and B's package succeeds, the
\* package is "matched" and a "pending" delivery naming both users is stored; after
\* A's PUT /api/deliveries/:id/status with "delivered", the delivery and its package
\* are both "delivered".
C8_MatchThenDeliver ==
    /\ (/\ resp.op = "POST /api/deliveries"
        /\ resp.code = 201
        /\ resp.arg.user = resp.arg.body.senderId
        /\ \E trip \in WithId(trips, resp.arg.body.tripId) :
                trip.userId = resp.arg.body.travelerId
        /\ \E pkg \in WithId(packages, resp.arg.body.packageId) :
                pkg.userId = resp.arg.body.senderId)
        => /\ \A pkg \in WithId(packages, resp.arg.body.packageId) : pkg.status = "matched"
           /\ \E delivery \in Rows(deliveries) :
                /\ delivery.tripId = resp.arg.body.tripId
                /\ delivery.packageId = resp.arg.body.packageId
                /\ delivery.travelerId = resp.arg.body.travelerId
                /\ delivery.senderId = resp.arg.body.senderId
                /\ delivery.status = "pending"
    /\ (/\ resp.op = "PUT /api/deliveries/:id/status"
        /\ "status" \in DOMAIN resp.arg.body
        /\ resp.arg.body.status = "delivered")
        => \A delivery \in WithId(deliveries, resp.arg.id) :
                (/\ delivery.travelerId = resp.arg.user
                 /\ \E trip \in WithId(trips, delivery.tripId) :
                        trip.userId = delivery.travelerId
                 /\ \E pkg \in WithId(packages, delivery.packageId) :
                        pkg.userId = delivery.senderId)
                => /\ delivery.status = "delivered"
                   /\ \A pkg \in WithId(packages, delivery.packageId) :
                        pkg.status = "delivered"

MutatingEndpoints ==
    {"POST /api/trips", "POST /api/packages", "POST /api/deliveries", "POST /api/messages",
     "POST /api/reviews", "POST /api/verification", "PUT /api/trips/:id",
     "PUT /api/packages/:id", "PUT /api/deliveries/:id/status",
     "PUT /api/deliveries/:id/payment"}

\* C9: each of the ten mutating endpoints answers a request without a session
\* with 401 and leaves the whole store as it was, whatever the body.
C9_UnauthenticatedIsRefused ==
    [][(resp'.op \in MutatingEndpoints /\ resp'.arg.user = NoSession)
            => /\ resp'.code = 401
               /\ UNCHANGED <<users, trips, packages, deliveries, messages, reviews, nextId>>]_vars

\* C9's case: PUT /api/deliveries/:id/status without a session, naming a stored
\* delivery that is "pending" and asking for "delivered", refused.
C9_Witness ==
    /\ resp.op = "PUT /api/deliveries/:id/status"
    /\ resp.arg.user = NoSession
    /\ resp.arg.body = [status |-> "delivered"]
    /\ resp.code = 401
    /\ \E delivery \in WithId(deliveries, resp.arg.id) : delivery.status = "pending"

\* C10: PUT /api/packages/:id and PUT /api/trips/:id by a logged-in user who is not
\* the owner of the stored entity answer 403 and leave the whole store as it was,
\* whatever the body.
C10_NonOwnerIsForbidden ==
    [][(/\ resp'.op \in {"PUT /api/packages/:id", "PUT /api/trips/:id"}
        /\ IsAuthenticated(resp'.arg.user)
        /\ \E entity \in WithId(IF resp'.op = "PUT /api/trips/:id" THEN trips ELSE packages,
                                resp'.arg.id) :
                entity.userId # resp'.arg.user)
            => /\ resp'.code = 403
               /\ UNCHANGED <<users, trips, packages, deliveries, messages, reviews, nextId>>]_vars

\* C10's case: user 1 asks to change the status of the package of user 2.
C10_Witness ==
    /\ resp.op = "PUT /api/packages/:id"
    /\ resp.arg.user = 1
    /\ resp.arg.body = [status |-> "lost"]
    /\ resp.code = 403
    /\ \E pkg \in WithId(packages, resp.arg.id) : pkg.userId = 2 /\ pkg.status # "lost"

-----------------------------------------------------------------------------
(* SpecVerification: users are created and their verification is updated *)

VerificationInputs ==
    {EmptyBody, [idVerified |-> TRUE], [phoneVerified |-> TRUE], [addressVerified |-> TRUE],
     [idVerified |-> FALSE]}

InitVerification ==
    /\ backend \in Backends
    /\ users = Constructed.users
    /\ trips = Constructed.trips
    /\ packages = Constructed.packages
    /\ deliveries = Constructed.deliveries
    /\ messages = Constructed.messages
    /\ reviews = Constructed.reviews
    /\ nextId = Constructed.nextId
    /\ now = 0
    /\ resp = NoCall
    /\ calls = NoCalls
    /\ clients = NoClients

CallCreateUser ==
    /\ nextId.users <= MaxUsers
    /\ LET r == CreateUser(Store)
       IN  Install(r.s) /\ resp' = Called("createUser", EmptyBody, r)
    /\ UNCHANGED <<backend, now, calls, clients>>

CallUpdateUserVerification ==
    \E userId \in Known(users, nextId.users), verificationData \in VerificationInputs :
        /\ LET r == UpdateUserVerification(Store, userId, verificationData)
           IN  /\ Install(r.s)
               /\ resp' = Called("updateUserVerification",
                                 [userId |-> userId, verificationData |-> verificationData], r)
        /\ UNCHANGED <<backend, now, calls, clients>>

NextVerification == CallCreateUser \/ CallUpdateUserVerification

SpecVerification == InitVerification /\ [][NextVerification]_vars

\* The flag is stored and true
Flag(status, key) == key \in DOMAIN status /\ status[key] = TRUE

\* C11: for every stored user, isVerified is true exactly when idVerified,
\* phoneVerified and addressVerified are all true; createUser and every
\* updateUserVerification keep it so.
C11_VerifiedIffAllFlags ==
    \A user \in Rows(users) :
        user.isVerified = TRUE <=>
            /\ Flag(user.verificationStatus, "idVerified")
            /\ Flag(user.verificationStatus, "phoneVerified")
            /\ Flag(user.verificationStatus, "addressVerified")

\* C13: updateUserVerification with a userId that is not stored fails, creates no
\* user and leaves every stored user as it was, with either storage.
C13_UnknownUserFails ==
    [][(/\ resp'.op = "updateUserVerification"
        /\ WithId(users, resp'.arg.userId) = {})
            => /\ ~resp'.ok
               /\ UNCHANGED <<users, nextId>>]_vars

\* C13's case: a user is stored and partly verified, and the call names an id
\* that is not stored, with data that would verify.
C13_Witness ==
    /\ resp.op = "updateUserVerification"
    /\ WithId(users, resp.arg.userId) = {}
    /\ resp.arg.verificationData = [idVerified |-> TRUE]
    /\ ~resp.ok
    /\ \E user \in Rows(users) : Flag(user.verificationStatus, "phoneVerified")

-----------------------------------------------------------------------------
(* The two storages side by side *)

Identities(rows) == {row.id : row \in rows}

\* C12: over the same stored trips and packages and the same filters, MemStorage and
\* PgStorage return the same entities from getTrips and from getPackages, packages
\* without a deliveryDeadline under a deliveryDeadline filter included.
C12_StoragesFilterAlike ==
    /\ \A filters \in TripFilters :
            Identities(MemGetTrips(Store, filters).rows)
                = Identities(PgGetTrips(Store, filters).rows)
    /\ \A filters \in PackageFilters :
            Identities(MemGetPackages(Store, filters).rows)
                = Identities(PgGetPackages(Store, filters).rows)

-----------------------------------------------------------------------------
(* MemStorage's create operations cut at their awaits.  An async method runs   *)
(* from its call to its first await, and from one await to the next, without   *)
(* another call running in between; at an await any other call may run.  What  *)
(* a call has read so far travels with it in the record of the call.           *)

Suspended(s, call) == [s |-> s, next |-> <<call>>]

Finished(s) == [s |-> s, next |-> <<>>]

\* createUser up to `await hashPassword(userData.password)`
MemCreateUserBegin(s) == Suspended(s, [op |-> "createUser", at |-> "hashPassword"])

\* createDelivery up to `await this.getPackage(deliveryData.packageId)`
MemCreateDeliveryBegin(s, deliveryData, t) ==
    LET id == s.nextId.deliveries
        delivery == Merge(deliveryData,
                          [id |-> id, status |-> "pending", paymentStatus |-> "pending",
                           createdAt |-> t, updatedAt |-> t])
        stored == [s EXCEPT !.nextId.deliveries = id + 1,
                            !.deliveries = Put(@, id, delivery)]
    IN  Suspended(stored, [op |-> "createDelivery", at |-> "getPackage", id |-> id,
                           pkg |-> MemGetPackage(stored, deliveryData.packageId)])

\* createReview up to `await this.getUser(reviewData.revieweeId)`
MemCreateReviewBegin(s, reviewData) ==
    LET id == s.nextId.reviews
        review == Merge(reviewData, [id |-> id])
        stored == [s EXCEPT !.nextId.reviews = id + 1, !.reviews = Put(@, id, review)]
    IN  Suspended(stored, [op |-> "createReview", at |-> "getUser", id |-> id,
                           revieweeId |-> reviewData.revieweeId,
                           user |-> MemGetUser(stored, reviewData.revieweeId)])

\* A suspended call from the await it stopped at to its next await, or to its end
MemResume(s, call) ==
    CASE call.op = "createUser" -> Finished(MemCreateUser(s).s)
      [] call.op = "createDelivery" /\ call.at = "getPackage" ->
            IF call.pkg = <<>> THEN Finished(s)
            ELSE Suspended(s, [call EXCEPT !.at = "updatePackage",
                                           !.pkg = MemGetPackage(s, call.pkg[1].id)])
      [] call.op = "createDelivery" /\ call.at = "updatePackage" ->
            IF call.pkg = <<>> THEN Finished(s)
            ELSE Finished([s EXCEPT !.packages =
                                Put(@, call.pkg[1].id,
                                    Merge(call.pkg[1], [status |-> "matched"]))])
      [] call.op = "createReview" /\ call.at = "getUser" ->
            IF call.user = <<>> THEN Finished(s)
            ELSE LET userReviews == ReviewsOfReviewee(s.reviews, call.revieweeId)
                 IN  Suspended(s, [op |-> "createReview", at |-> "getReviewsByUserId",
                                   id |-> call.id, user |-> call.user,
                                   totalRating |-> SumRatings(s.reviews, userReviews),
                                   length |-> Cardinality(userReviews)])
      [] call.op = "createReview" /\ call.at = "getReviewsByUserId" ->
            Finished([s EXCEPT !.users =
                        Put(@, call.user[1].id,
                            Merge(call.user[1],
                                  [rating |-> Quotient(call.totalRating, call.length),
                                   reviewCount |-> call.length]))])

-----------------------------------------------------------------------------
(* SpecConcurrent: MemStorage's six create operations running concurrently *)

FreeSlots == (1..MaxCalls) \ DOMAIN calls

\* The ids drawn so far, and those the calls still hashing a password will draw
Drawn ==
    (nextId.users - 1) + (nextId.trips - 1) + (nextId.packages - 1)
        + (nextId.deliveries - 1) + (nextId.messages - 1) + (nextId.reviews - 1)
        + Cardinality({c \in DOMAIN calls : calls[c].op = "createUser"})

Keep(r) ==
    IF r.next = <<>> THEN calls' = calls
    ELSE calls' = ((CHOOSE c \in FreeSlots : \A d \in FreeSlots : c <= d) :> r.next[1]) @@ calls

Link == [tripId |-> 1, packageId |-> 1, travelerId |-> 1, senderId |-> 2]

Praise == [reviewerId |-> 2, revieweeId |-> 1, deliveryId |-> Null, rating |-> 5]

Greeting == [senderId |-> 1, receiverId |-> 2, content |-> HI]

InitConcurrent ==
    /\ backend = "mem"
    /\ users = Constructed.users
    /\ trips = Constructed.trips
    /\ packages = Constructed.packages
    /\ deliveries = Constructed.deliveries
    /\ messages = Constructed.messages
    /\ reviews = Constructed.reviews
    /\ nextId = Constructed.nextId
    /\ now = 0
    /\ resp = NoCall
    /\ calls = NoCalls
    /\ clients = NoClients

BeginCreateUser ==
    /\ Drawn < MaxCreated /\ FreeSlots # {}
    /\ LET r == MemCreateUserBegin(Store) IN Install(r.s) /\ Keep(r)
    /\ UNCHANGED <<backend, now, resp, clients>>

BeginCreateDelivery ==
    /\ Drawn < MaxCreated /\ FreeSlots # {}
    /\ LET r == MemCreateDeliveryBegin(Store, Link, now) IN Install(r.s) /\ Keep(r)
    /\ UNCHANGED <<backend, now, resp, clients>>

BeginCreateReview ==
    /\ Drawn < MaxCreated /\ FreeSlots # {}
    /\ LET r == MemCreateReviewBegin(Store, Praise) IN Install(r.s) /\ Keep(r)
    /\ UNCHANGED <<backend, now, resp, clients>>

RunCreateTrip ==
    /\ Drawn < MaxCreated
    /\ Install(MemCreateTrip(Store, TripToAddis, 1).s)
    /\ UNCHANGED <<backend, now, resp, calls, clients>>

RunCreatePackage ==
    /\ Drawn < MaxCreated
    /\ Install(MemCreatePackage(Store, Parcel, 2).s)
    /\ UNCHANGED <<backend, now, resp, calls, clients>>

RunCreateMessage ==
    /\ Drawn < MaxCreated
    /\ Install(MemCreateMessage(Store, Greeting, now).s)
    /\ UNCHANGED <<backend, now, resp, calls, clients>>

Resume ==
    \E c \in DOMAIN calls :
        /\ LET r == MemResume(Store, calls[c])
           IN  /\ Install(r.s)
               /\ calls' = IF r.next = <<>>
                           THEN [d \in DOMAIN calls \ {c} |-> calls[d]]
                           ELSE [calls EXCEPT ![c] = r.next[1]]
        /\ UNCHANGED <<backend, now, resp, clients>>

NextConcurrent ==
    \/ BeginCreateUser
    \/ BeginCreateDelivery
    \/ BeginCreateReview
    \/ RunCreateTrip
    \/ RunCreatePackage
    \/ RunCreateMessage
    \/ Resume

SpecConcurrent == InitConcurrent /\ [][NextConcurrent]_vars

Kinds == {"users", "trips", "packages", "deliveries", "messages", "reviews"}

\* C14: in MemStorage, however the create operations interleave at their awaits, a
\* create of a kind draws the id after every id drawn before for that kind, stores
\* its entity under that id, which held nothing, and leaves the kind's other
\* entities as they were; nothing is stored under an id without drawing it.
C14_IdsAreFreshAndIncreasing ==
    [][\A kind \in Kinds :
        LET before == Tables[kind]
            after == Tables'[kind]
            id == nextId[kind]
        IN  IF nextId'[kind] # id
            THEN /\ nextId'[kind] = id + 1
                 /\ id \notin DOMAIN before
                 /\ \A k \in DOMAIN before : before[k].id < id
                 /\ DOMAIN after = DOMAIN before \cup {id}
                 /\ after[id].id = id
                 /\ \A k \in DOMAIN before : after[k] = before[k]
            ELSE DOMAIN after = DOMAIN before]_vars

\* C14's case: two createDelivery calls are in flight at once, each stopped at an
\* await after storing its delivery, and the two deliveries have different ids.
C14_Witness ==
    \E c, d \in DOMAIN calls :
        /\ c # d
        /\ calls[c].op = "createDelivery" /\ calls[d].op = "createDelivery"
        /\ calls[c].id # calls[d].id
        /\ calls[c].id \in DOMAIN deliveries /\ calls[d].id \in DOMAIN deliveries

-----------------------------------------------------------------------------
\* The WebSocket relay on /ws: wss.on('connection') and ws.on('message')

MaxClients == 3

MaxReceived == 2

\* U+FFFD, what a UTF-8 decoder puts in place of bytes that are not UTF-8
ReplacementCharacter == 65533

\* How many continuation bytes a UTF-8 lead byte announces (0: not a lead byte)
Need(lead) ==
    IF lead \in 194..223 THEN 1
    ELSE IF lead \in 224..239 THEN 2
    ELSE IF lead \in 240..244 THEN 3
    ELSE 0

\* The values the j-th continuation byte after a lead byte may have
Continuation(lead, j) ==
    IF j > 1 THEN 128..191
    ELSE (IF lead = 224 THEN 160 ELSE IF lead = 240 THEN 144 ELSE 128)
            .. (IF lead = 237 THEN 159 ELSE IF lead = 244 THEN 143 ELSE 191)

\* How many of the announced continuation bytes follow the first byte of bytes
Follows(bytes) ==
    LET lead == bytes[1]
        ok(j) == 1 + j <= Len(bytes) /\ bytes[1 + j] \in Continuation(lead, j)
    IN  Cardinality({k \in 1..Need(lead) : \A j \in 1..k : ok(j)})

CodePoint(unit) ==
    CASE Len(unit) = 1 -> unit[1]
      [] Len(unit) = 2 -> (unit[1] - 192) * 64 + (unit[2] - 128)
      [] Len(unit) = 3 -> (unit[1] - 224) * 4096 + (unit[2] - 128) * 64 + (unit[3] - 128)
      [] OTHER -> (unit[1] - 240) * 262144 + (unit[2] - 128) * 4096
                    + (unit[3] - 128) * 64 + (unit[4] - 128)

\* Buffer.toString(): the bytes decoded as UTF-8, every ill-formed run of bytes
\* replaced by U+FFFD
RECURSIVE Utf8Decode(_)
Utf8Decode(bytes) ==
    IF bytes = <<>> THEN <<>>
    ELSE LET lead == bytes[1]
             n == Follows(bytes)
             rest == SubSeq(bytes, n + 2, Len(bytes))
         IN  IF lead < 128 THEN <<lead>> \o Utf8Decode(Tail(bytes))
             ELSE IF Need(lead) > 0 /\ n = Need(lead)
                  THEN <<CodePoint(SubSeq(bytes, 1, n + 1))>> \o Utf8Decode(rest)
                  ELSE <<ReplacementCharacter>> \o Utf8Decode(rest)

\* The bytes of a string in a text frame
RECURSIVE Utf8Encode(_)
Utf8Encode(string) ==
    IF string = <<>> THEN <<>>
    ELSE LET c == string[1]
             unit == IF c < 128 THEN <<c>>
                     ELSE IF c < 2048 THEN <<192 + (c \div 64), 128 + (c % 64)>>
                     ELSE IF c < 65536
                          THEN <<224 + (c \div 4096), 128 + ((c \div 64) % 64), 128 + (c % 64)>>
                          ELSE <<240 + (c \div 262144), 128 + ((c \div 4096) % 64),
                                 128 + ((c \div 64) % 64), 128 + (c % 64)>>
         IN  unit \o Utf8Encode(Tail(string))

\* message.toString()
MessageToString(message) == Utf8Decode(message.data)

\* client.send(string): a string goes out as a text frame
Send(client, string) ==
    [client EXCEPT !.received = Append(@, [binary |-> FALSE, data |-> Utf8Encode(string)])]

\* wss.on('connection'): the socket joins wss.clients, OPEN
OnConnection(cs) == Append(cs, [readyState |-> "OPEN", received |-> <<>>])

\* ws.on('message'): wss.clients.forEach
OnMessage(cs, ws, message) ==
    [client \in DOMAIN cs |->
        IF client # ws /\ cs[client].readyState = "OPEN"
        THEN Send(cs[client], MessageToString(message))
        ELSE cs[client]]

\* The frames a client sends: text frames hold UTF-8 (the server closes the
\* connection on any other), binary frames hold any bytes
Frames ==
    {[binary |-> FALSE, data |-> <<104, 105>>],
     [binary |-> FALSE, data |-> <<195, 169>>],
     [binary |-> TRUE, data |-> <<104, 105>>],
     [binary |-> TRUE, data |-> <<255>>]}

InitWebSocket ==
    /\ backend \in Backends
    /\ users = Constructed.users
    /\ trips = Constructed.trips
    /\ packages = Constructed.packages
    /\ deliveries = Constructed.deliveries
    /\ messages = Constructed.messages
    /\ reviews = Constructed.reviews
    /\ nextId = Constructed.nextId
    /\ now = 0
    /\ resp = NoCall
    /\ calls = NoCalls
    /\ clients = NoClients

WsConnection ==
    /\ Len(clients) < MaxClients
    /\ clients' = OnConnection(clients)
    /\ resp' = [op |-> "connection", arg |-> <<Len(clients) + 1>>, ok |-> TRUE, rows |-> <<>>]
    /\ UNCHANGED <<backend, users, trips, packages, deliveries, messages, reviews,
                   nextId, now, calls>>

\* A close handshake starts on an OPEN socket
WsClosing ==
    \E ws \in DOMAIN clients :
        /\ clients[ws].readyState = "OPEN"
        /\ clients' = [clients EXCEPT ![ws].readyState = "CLOSING"]
        /\ resp' = [op |-> "closing", arg |-> <<ws>>, ok |-> TRUE, rows |-> <<>>]
        /\ UNCHANGED <<backend, users, trips, packages, deliveries, messages, reviews,
                       nextId, now, calls>>

\* The connection is gone
WsClosed ==
    \E ws \in DOMAIN clients :
        /\ clients[ws].readyState # "CLOSED"
        /\ clients' = [clients EXCEPT ![ws].readyState = "CLOSED"]
        /\ resp' = [op |-> "closed", arg |-> <<ws>>, ok |-> TRUE, rows |-> <<>>]
        /\ UNCHANGED <<backend, users, trips, packages, deliveries, messages, reviews,
                       nextId, now, calls>>

WsMessage ==
    \E ws \in DOMAIN clients, message \in Frames :
        /\ clients[ws].readyState = "OPEN"
        /\ \A client \in DOMAIN clients : Len(clients[client].received) < MaxReceived
        /\ clients' = OnMessage(clients, ws, message)
        /\ resp' = [op |-> "message", arg |-> <<ws, message>>, ok |-> TRUE, rows |-> <<>>]
        /\ UNCHANGED <<backend, users, trips, packages, deliveries, messages, reviews,
                       nextId, now, calls>>

NextWebSocket == WsConnection \/ WsClosing \/ WsClosed \/ WsMessage

SpecWebSocket == InitWebSocket /\ [][NextWebSocket]_vars

\* What a message event did to the clients: `copies(client)` is what each client
\* received in the step
Relayed(copies(_)) ==
    /\ DOMAIN clients' = DOMAIN clients
    /\ \A client \in DOMAIN clients :
        /\ clients'[client].readyState = clients[client].readyState
        /\ clients'[client].received = clients[client].received \o copies(client)

\* C15: when a client of /ws sends a message, every other client that is OPEN at
\* that moment receives exactly one frame, holding the bytes of the payload, and
\* the sender and the clients that are not OPEN receive nothing.
C15_RelayIsVerbatim ==
    [][resp'.op = "message" =>
        LET ws == resp'.arg[1]
            message == resp'.arg[2]
            copies(client) ==
                IF client # ws /\ clients[client].readyState = "OPEN"
                THEN <<[binary |-> FALSE, data |-> message.data]>>
                ELSE <<>>
        IN  Relayed(copies)]_vars

-----------------------------------------------------------------------------
\* C16: between storage calls, the stored package of every delivery whose status
\* is "delivered" has status "delivered", whatever createDelivery,
\* updateDeliveryStatus, updatePaymentStatus and updatePackage calls came before.
C16_DeliveredDeliveryHasDeliveredPackage ==
    \A d \in DOMAIN deliveries :
        deliveries[d].status = "delivered" =>
            \A p \in DOMAIN packages :
                packages[p].id = deliveries[d].packageId => packages[p].status = "delivered"

-----------------------------------------------------------------------------
\* The listings: GET /api/trips and GET /api/packages

\* The user of a listed row, as the listings attach it: null (no row) when
\* storage.getUser finds none
UserDetails(s, row) ==
    LET user == GetUser(s, Prop(row, "userId"))
    IN  IF user = <<>> THEN <<>>
        ELSE <<[id |-> user[1].id,
                verificationStatus |-> Prop(user[1], "verificationStatus"),
                rating |-> Prop(user[1], "rating"),
                reviewCount |-> Prop(user[1], "reviewCount")]>>

WithUserDetails(s, r) ==
    IF r.ok
    THEN Returned(r.s, {Merge(row, [user |-> UserDetails(s, row)]) : row \in r.rows})
    ELSE r

TripQueryKeys == {"departureCity", "destinationCity", "departureDate", "availableWeight"}

PackageQueryKeys == {"senderCity", "receiverCity", "packageType", "weight", "deliveryDeadline"}

GetApiTrips(s, query) ==
    Json(WithUserDetails(s, GetTrips(s, Strip(query, TripQueryKeys))), 200)

GetApiPackages(s, query) ==
    Json(WithUserDetails(s, GetPackages(s, Strip(query, PackageQueryKeys))), 200)

\* C17: whatever requests came before, every stored trip and every stored package
\* is active, and is in the answer of GET /api/trips, or GET /api/packages, without
\* a query.
C17_CreatedStaysListed ==
    /\ \A trip \in Rows(trips) :
        /\ trip.isActive
        /\ trip.id \in Identities(GetApiTrips(Store, EmptyBody).rows)
    /\ \A pkg \in Rows(packages) :
        /\ pkg.isActive
        /\ pkg.id \in Identities(GetApiPackages(Store, EmptyBody).rows)

-----------------------------------------------------------------------------
(* SpecTripForm: trips posted from the traveler's form and posted to            *)
(* POST /api/trips directly, on a store of registered users without trips.     *)

MaxDay == 2

MaxFormTrips == 2

\* TravelerForm.onSubmit: the body the form posts, or none when it stops at a toast
OnSubmit(values, today) ==
    IF values.departureAirport = <<>> THEN <<>>
    ELSE IF values.departureDate < today THEN <<>>
    ELSE IF values.arrivalDate < values.departureDate THEN <<>>
    ELSE <<values>>

TripValues ==
    {[TripToAddis EXCEPT !.departureDate = d, !.arrivalDate = a] : d, a \in 0..MaxDay}
    \cup {[TripToAddis EXCEPT !.departureAirport = <<>>]}

InitTripForm ==
    /\ backend \in Backends
    /\ users = Registered.users
    /\ trips = Registered.trips
    /\ packages = Registered.packages
    /\ deliveries = Registered.deliveries
    /\ messages = Registered.messages
    /\ reviews = Registered.reviews
    /\ nextId = Registered.nextId
    /\ now = 0
    /\ resp = NoCall
    /\ calls = NoCalls
    /\ clients = NoClients

\* The form is submitted and posts what onSubmit lets through
FormSubmit ==
    \E user \in Sessions, values \in TripValues :
        /\ nextId.trips <= MaxFormTrips
        /\ OnSubmit(values, now) # <<>>
        /\ LET body == OnSubmit(values, now)[1]
               r == PostTrips(Store, user, body, now)
           IN  /\ Install(r.s)
               /\ resp' = Responded("TravelerForm.onSubmit", Request(user, body), r)
        /\ UNCHANGED <<backend, now, calls, clients>>

\* Any client posts a body of its own
RequestPostTrips ==
    \E user \in Sessions, body \in TripValues \cup {EmptyBody} :
        /\ nextId.trips <= MaxFormTrips
        /\ LET r == PostTrips(Store, user, body, now)
           IN  Install(r.s) /\ resp' = Responded("POST /api/trips", Request(user, body), r)
        /\ UNCHANGED <<backend, now, calls, clients>>

NextTripForm == FormSubmit \/ RequestPostTrips \/ Tick

SpecTripForm == InitTripForm /\ [][NextTripForm]_vars

\* C18: no stored trip arrives before it departs, and POST /api/trips has answered
\* 400 to an authenticated request whose arrivalDate is before its departureDate.
C18_ArrivalNotBeforeDeparture ==
    /\ \A trip \in Rows(trips) : trip.arrivalDate >= trip.departureDate
    /\ (/\ resp.op \in {"POST /api/trips", "TravelerForm.onSubmit"}
        /\ IsAuthenticated(resp.arg.user)
        /\ InsertTripKeys \subseteq DOMAIN resp.arg.body
        /\ resp.arg.body.arrivalDate < resp.arg.body.departureDate)
            => resp.code = 400

-----------------------------------------------------------------------------
PackageStatuses == {"pending", "matched", "delivered"}

\* C19: whatever requests came before, the status of every stored package is
\* "pending", "matched" or "delivered".
C19_PackageStatusIsKnown ==
    \A pkg \in Rows(packages) : pkg.status \in PackageStatuses

-----------------------------------------------------------------------------
(* SpecDeliveryAuth: the status and the payment of deliveries are changed by    *)
(* the traveler, the sender and a third user, on a store that holds one        *)
(* delivery between user 1 (traveler) and user 2 (sender).                     *)

MaxAuthDeliveries == 2

WithDelivery ==
    CreateDelivery(WithParcel,
                   [tripId |-> 1, packageId |-> 1, travelerId |-> 1, senderId |-> 2], 0).s

Requesters == {NoSession, 1, 2, 3}

StatusValues == {[status |-> "delivered"], [status |-> "in_transit"], EmptyBody}

PaymentValues == {[paymentStatus |-> "released"], EmptyBody}

InitDeliveryAuth ==
    /\ backend \in Backends
    /\ users = WithDelivery.users
    /\ trips = WithDelivery.trips
    /\ packages = WithDelivery.packages
    /\ deliveries = WithDelivery.deliveries
    /\ messages = WithDelivery.messages
    /\ reviews = WithDelivery.reviews
    /\ nextId = WithDelivery.nextId
    /\ now = 0
    /\ resp = NoCall
    /\ calls = NoCalls
    /\ clients = NoClients

RequestPostDeliveries ==
    \E user \in Requesters, traveler \in {1, 3} :
        /\ nextId.deliveries <= MaxAuthDeliveries
        /\ LET body == [tripId |-> 1, packageId |-> 1, travelerId |-> traveler, senderId |-> 2]
               r == PostDeliveries(Store, user, body, now)
           IN  /\ Install(r.s)
               /\ resp' = Responded("POST /api/deliveries", Request(user, body), r)
        /\ UNCHANGED <<backend, now, calls, clients>>

RequestPutDeliveryStatus ==
    \E user \in Requesters, id \in Known(deliveries, nextId.deliveries),
       body \in StatusValues :
        /\ LET r == PutDeliveryStatus(Store, user, id, body, now)
           IN  /\ Install(r.s)
               /\ resp' = Responded("PUT /api/deliveries/:id/status",
                                    RequestOn(user, id, body), r)
        /\ UNCHANGED <<backend, now, calls, clients>>

RequestPutDeliveryPayment ==
    \E user \in Requesters, id \in Known(deliveries, nextId.deliveries),
       body \in PaymentValues :
        /\ LET r == PutDeliveryPayment(Store, user, id, body, now)
           IN  /\ Install(r.s)
               /\ resp' = Responded("PUT /api/deliveries/:id/payment",
                                    RequestOn(user, id, body), r)
        /\ UNCHANGED <<backend, now, calls, clients>>

NextDeliveryAuth ==
    \/ RequestPostDeliveries
    \/ RequestPutDeliveryStatus
    \/ RequestPutDeliveryPayment
    \/ Tick

SpecDeliveryAuth == InitDeliveryAuth /\ [][NextDeliveryAuth]_vars

\* C20: a logged-in request to PUT /api/deliveries/:id/status or
\* PUT /api/deliveries/:id/payment that leaves out the value, names no stored
\* delivery, or comes from a user who is not the delivery's sender (for the status:
\* nor its traveler) is answered 400, 404 or 403 as its case says and leaves the
\* whole store as it was; so a request changes the store only when it comes from
\* the sender (for the status: or the traveler) of the stored delivery it names.
C20_OnlyParticipantsChangeDeliveries ==
    [][(/\ resp'.op \in {"PUT /api/deliveries/:id/status", "PUT /api/deliveries/:id/payment"}
        /\ IsAuthenticated(resp'.arg.user))
        => LET onStatus == resp'.op = "PUT /api/deliveries/:id/status"
               user == resp'.arg.user
               named == WithId(deliveries, resp'.arg.id)
               key == IF onStatus THEN "status" ELSE "paymentStatus"
               allowed(d) == d.senderId = user \/ (onStatus /\ d.travelerId = user)
               codes == (IF key \notin DOMAIN resp'.arg.body THEN {400} ELSE {})
                            \cup (IF named = {} THEN {404} ELSE {})
                            \cup (IF \E d \in named : ~allowed(d) THEN {403} ELSE {})
               same == UNCHANGED <<users, trips, packages, deliveries, messages,
                                   reviews, nextId>>
           IN  /\ codes # {} => (resp'.code \in codes /\ same)
               /\ ~same => \E d \in named : allowed(d)]_vars

\* C20's case: user 3, neither sender nor traveler of the stored pending delivery,
\* has asked to mark it delivered and was answered 403.
C20_Witness ==
    /\ backend = "mem"
    /\ resp.op = "PUT /api/deliveries/:id/status"
    /\ resp.arg.user = 3
    /\ resp.arg.body = [status |-> "delivered"]
    /\ resp.code = 403
    /\ \E d \in WithId(deliveries, resp.arg.id) :
            d.status = "pending" /\ d.senderId = 2 /\ d.travelerId = 1

-----------------------------------------------------------------------------
(* SpecReviewAuth: reviews are posted by the traveler, the sender and a third  *)
(* user, on a store that holds one delivery between user 1 (traveler) and      *)
(* user 2 (sender).                                                            *)

MaxAuthReviews == 2

\* Bodies with and without a deliveryId (1 is stored, 2 is not), for each
\* reviewee, some naming another reviewer than the session's user
ReviewRequests ==
    {Merge(Merge([revieweeId |-> e, rating |-> r], tie), claim) :
        e \in {1, 2, 3}, r \in {2, 5},
        tie \in {EmptyBody, [deliveryId |-> 1], [deliveryId |-> 2]},
        claim \in {EmptyBody, [reviewerId |-> 3]}}
    \cup {[deliveryId |-> 1]}

InitReviewAuth ==
    /\ backend \in Backends
    /\ users = WithDelivery.users
    /\ trips = WithDelivery.trips
    /\ packages = WithDelivery.packages
    /\ deliveries = WithDelivery.deliveries
    /\ messages = WithDelivery.messages
    /\ reviews = WithDelivery.reviews
    /\ nextId = WithDelivery.nextId
    /\ now = 0
    /\ resp = NoCall
    /\ calls = NoCalls
    /\ clients = NoClients

RequestPostReviews ==
    \E user \in Requesters, body \in ReviewRequests :
        /\ nextId.reviews <= MaxAuthReviews
        /\ LET r == PostReviews(Store, user, body)
           IN  Install(r.s) /\ resp' = Responded("POST /api/reviews", Request(user, body), r)
        /\ UNCHANGED <<backend, now, calls, clients>>

NextReviewAuth == RequestPostReviews

SpecReviewAuth == InitReviewAuth /\ [][NextReviewAuth]_vars

\* The reviewer is one party of the delivery and the reviewee is the other one
OtherParty(delivery, reviewer, reviewee) ==
    \/ delivery.senderId = reviewer /\ delivery.travelerId = reviewee /\ reviewee # reviewer
    \/ delivery.travelerId = reviewer /\ delivery.senderId = reviewee /\ reviewee # reviewer

\* C21: a logged-in POST /api/reviews with a deliveryId stores a review only when
\* the delivery is stored, the session's user is its sender or its traveler and the
\* reviewee is the other of the two; any other such request is answered 404, 403
\* or 400, stores no review and leaves every user's rating and reviewCount alone.
C21_ReviewOfOtherPartyOnly ==
    [][(/\ resp'.op = "POST /api/reviews"
        /\ IsAuthenticated(resp'.arg.user)
        /\ "deliveryId" \in DOMAIN resp'.arg.body
        /\ ~\E d \in WithId(deliveries, resp'.arg.body.deliveryId) :
                OtherParty(d, resp'.arg.user, Prop(resp'.arg.body, "revieweeId")))
        => /\ resp'.code \in {404, 403, 400}
           /\ UNCHANGED <<reviews, users>>]_vars

-----------------------------------------------------------------------------
\* The delivery without the fields of `keys`
Except(delivery, keys) == [k \in DOMAIN delivery \ keys |-> delivery[k]]

\* C22: updatePaymentStatus(id, p) changes the paymentStatus and the updatedAt of
\* the delivery with that id and nothing else, no delivery's status and no package,
\* also for p = "delivered"; updateDeliveryStatus changes no delivery's
\* paymentStatus.
C22_StatusAndPaymentAreIndependent ==
    [][/\ resp'.op = "updatePaymentStatus" =>
            /\ packages' = packages
            /\ DOMAIN deliveries' = DOMAIN deliveries
            /\ \A k \in DOMAIN deliveries :
                IF deliveries[k].id = resp'.arg.id
                THEN /\ Except(deliveries'[k], {"paymentStatus", "updatedAt"})
                            = Except(deliveries[k], {"paymentStatus", "updatedAt"})
                     /\ deliveries'[k].paymentStatus = resp'.arg.paymentStatus
                ELSE deliveries'[k] = deliveries[k]
       /\ resp'.op = "updateDeliveryStatus" =>
            /\ DOMAIN deliveries' = DOMAIN deliveries
            /\ \A k \in DOMAIN deliveries :
                    deliveries'[k].paymentStatus = deliveries[k].paymentStatus]_vars

\* C22's case: updatePaymentStatus(id, "delivered") has run on a stored delivery
\* that is "pending" and whose package is "matched".
C22_Witness ==
    /\ resp.op = "updatePaymentStatus"
    /\ resp.arg.paymentStatus = "delivered"
    /\ \E d \in WithId(deliveries, resp.arg.id) :
        /\ d.paymentStatus = "delivered"
        /\ d.status = "pending"
        /\ \E pkg \in WithId(packages, d.packageId) : pkg.status = "matched"

-----------------------------------------------------------------------------
(* SpecMatch: deliveries are posted and marked by users 1 (owner of trip 1),    *)
(* 2 (owner of package 1) and 3, naming stored and missing trips, packages     *)
(* and users.                                                                  *)

MaxMatchDeliveries == 2

\* Trip 2, package 2 and user 4 are not stored
MatchRequests ==
    {[tripId |-> i, packageId |-> p, travelerId |-> traveler, senderId |-> sender] :
        i \in {1, 2}, p \in {1, 2}, traveler \in {1, 3, 4}, sender \in {2, 4}}

InitMatch ==
    /\ backend \in Backends
    /\ users = WithParcel.users
    /\ trips = WithParcel.trips
    /\ packages = WithParcel.packages
    /\ deliveries = WithParcel.deliveries
    /\ messages = WithParcel.messages
    /\ reviews = WithParcel.reviews
    /\ nextId = WithParcel.nextId
    /\ now = 0
    /\ resp = NoCall
    /\ calls = NoCalls
    /\ clients = NoClients

MatchPostDeliveries ==
    \E user \in Requesters, body \in MatchRequests :
        /\ nextId.deliveries <= MaxMatchDeliveries
        /\ LET r == PostDeliveries(Store, user, body, now)
           IN  /\ Install(r.s)
               /\ resp' = Responded("POST /api/deliveries", Request(user, body), r)
        /\ UNCHANGED <<backend, now, calls, clients>>

MatchPutDeliveryStatus ==
    \E user \in Requesters, id \in Known(deliveries, nextId.deliveries) :
        /\ LET body == [status |-> "delivered"]
               r == PutDeliveryStatus(Store, user, id, body, now)
           IN  /\ Install(r.s)
               /\ resp' = Responded("PUT /api/deliveries/:id/status",
                                    RequestOn(user, id, body), r)
        /\ UNCHANGED <<backend, now, calls, clients>>

NextMatch == MatchPostDeliveries \/ MatchPutDeliveryStatus

SpecMatch == InitMatch /\ [][NextMatch]_vars

\* C23: a logged-in POST /api/deliveries that names a trip, a package, a traveler
\* or a sender that is not stored is refused, stores no delivery and changes no
\* package; so every delivery it stores references four stored entities.
C23_DeliveryReferencesExist ==
    [][(/\ resp'.op = "POST /api/deliveries"
        /\ IsAuthenticated(resp'.arg.user)
        /\ LET body == resp'.arg.body
           IN  \/ WithId(trips, body.tripId) = {}
               \/ WithId(packages, body.packageId) = {}
               \/ WithId(users, body.travelerId) = {}
               \/ WithId(users, body.senderId) = {})
        => /\ resp'.code >= 400
           /\ deliveries' = deliveries
           /\ packages' = packages]_vars

\* C29: a delivery stored by POST /api/deliveries has the owner of its trip as
\* traveler and the owner of its package as sender, and the logged-in requester
\* is one of the two; and a request that turns a package to "matched" or
\* "delivered" comes from the owner of that package or of the trip it is
\* matched to.
C29_DeliveryPairsOwners ==
    [][/\ (resp'.op = "POST /api/deliveries" /\ resp'.code = 201)
            => LET body == resp'.arg.body
               IN  /\ \E trip \in WithId(trips, body.tripId) : body.travelerId = trip.userId
                   /\ \E pkg \in WithId(packages, body.packageId) :
                        body.senderId = pkg.userId
                   /\ resp'.arg.user \in {body.travelerId, body.senderId}
       /\ \A k \in DOMAIN packages :
            (/\ k \in DOMAIN packages'
             /\ packages'[k].status # packages[k].status
             /\ packages'[k].status \in {"matched", "delivered"})
            => \/ resp'.arg.user = packages[k].userId
               \/ \E j \in DOMAIN deliveries' : \E trip \in WithId(trips, deliveries'[j].tripId) :
                    /\ deliveries'[j].packageId = packages[k].id
                    /\ resp'.arg.user = trip.userId]_vars

-----------------------------------------------------------------------------
(* SpecPgReviews: PgStorage.createReview calls running concurrently, each SQL  *)
(* statement one step.                                                         *)

MaxPgReviews == 3

\* createReview up to `await this.getReviewsByUserId(...)`: the INSERT has run
PgCreateReviewBegin(s, reviewData) ==
    LET id == s.nextId.reviews
        review == Merge(reviewData, [id |-> id])
        drawn == [s EXCEPT !.nextId.reviews = id + 1]
    IN  IF ~(/\ PgReferences(s.users, reviewData.reviewerId)
             /\ PgReferences(s.users, reviewData.revieweeId)
             /\ (reviewData.deliveryId = Null
                    \/ PgReferences(s.deliveries, reviewData.deliveryId)))
        THEN Finished(drawn)
        ELSE Suspended([drawn EXCEPT !.reviews = Put(@, id, review)],
                       [op |-> "createReview", at |-> "insert", id |-> id,
                        revieweeId |-> reviewData.revieweeId])

\* A suspended call runs its next statement: the SELECT of the reviewee's reviews,
\* then the UPDATE of the user with the total and the length it had read
PgResume(s, call) ==
    IF call.at = "insert"
    THEN LET userReviews == ReviewsOfReviewee(s.reviews, call.revieweeId)
         IN  Suspended(s, [op |-> "createReview", at |-> "select", id |-> call.id,
                           revieweeId |-> call.revieweeId,
                           total |-> SumRatings(s.reviews, userReviews),
                           length |-> Cardinality(userReviews)])
    ELSE Finished([s EXCEPT !.users =
                        PgUpdateRows(@, UserFields, call.revieweeId,
                                     [rating |-> Quotient(call.total, call.length),
                                      review_count |-> call.length])])

PgReviewInputs ==
    {[reviewerId |-> 2, revieweeId |-> e, deliveryId |-> Null, rating |-> r] :
        e \in {1, 3}, r \in {2, 5}}

InitPgReviews ==
    /\ backend = "pg"
    /\ users = Registered.users
    /\ trips = Registered.trips
    /\ packages = Registered.packages
    /\ deliveries = Registered.deliveries
    /\ messages = Registered.messages
    /\ reviews = Registered.reviews
    /\ nextId = Registered.nextId
    /\ now = 0
    /\ resp = NoCall
    /\ calls = NoCalls
    /\ clients = NoClients

PgBeginCreateReview ==
    \E reviewData \in PgReviewInputs :
        /\ nextId.reviews <= MaxPgReviews /\ FreeSlots # {}
        /\ LET r == PgCreateReviewBegin(Store, reviewData) IN Install(r.s) /\ Keep(r)
        /\ UNCHANGED <<backend, now, resp, clients>>

PgResumeCreateReview ==
    \E c \in DOMAIN calls :
        /\ LET r == PgResume(Store, calls[c])
           IN  /\ Install(r.s)
               /\ calls' = IF r.next = <<>>
                           THEN [d \in DOMAIN calls \ {c} |-> calls[d]]
                           ELSE [calls EXCEPT ![c] = r.next[1]]
        /\ UNCHANGED <<backend, now, resp, clients>>

NextPgReviews == PgBeginCreateReview \/ PgResumeCreateReview

SpecPgReviews == InitPgReviews /\ [][NextPgReviews]_vars

\* C24: with PgStorage, when no createReview call is in flight, the stored rating
\* of every user who has reviews is the mean of the ratings of the stored reviews
\* of that reviewee, and the stored reviewCount is their number.
C24_RatingIsMeanAfterConcurrentReviews ==
    DOMAIN calls = {} =>
        \A k \in DOMAIN users :
            LET mine == ReviewsOfReviewee(reviews, users[k].id)
            IN  mine # {} =>
                    /\ IsQuotient(users[k].rating, SumRatings(reviews, mine),
                                  Cardinality(mine))
                    /\ users[k].reviewCount = Cardinality(mine)

-----------------------------------------------------------------------------
(* SpecListing: trips leaving JFK and LAX are posted, and GET /api/trips is     *)
(* asked with each of its query parameters.                                    *)

MaxListedTrips == 2

ListedTrips ==
    {[TripToAddis EXCEPT !.departureAirport = a, !.availableWeight = w] :
        a \in {JFK, LAX}, w \in {10, 30}}

TripQueries ==
    {EmptyBody, [departureCity |-> LAX], [departureCity |-> <<"j", "f">>],
     [destinationCity |-> <<"a", "D">>], [destinationCity |-> NYC],
     [departureDate |-> 2], [availableWeight |-> 20]}

InitListing ==
    /\ backend \in Backends
    /\ users = Registered.users
    /\ trips = Registered.trips
    /\ packages = Registered.packages
    /\ deliveries = Registered.deliveries
    /\ messages = Registered.messages
    /\ reviews = Registered.reviews
    /\ nextId = Registered.nextId
    /\ now = 0
    /\ resp = NoCall
    /\ calls = NoCalls
    /\ clients = NoClients

ListingPostTrips ==
    \E user \in {1, 2}, body \in ListedTrips :
        /\ nextId.trips <= MaxListedTrips
        /\ LET r == PostTrips(Store, user, body, now)
           IN  Install(r.s) /\ resp' = Responded("POST /api/trips", Request(user, body), r)
        /\ UNCHANGED <<backend, now, calls, clients>>

ListingGetTrips ==
    \E query \in TripQueries :
        /\ LET r == GetApiTrips(Store, query)
           IN  /\ Install(r.s)
               /\ resp' = [op |-> "GET /api/trips", arg |-> [query |-> query],
                           ok |-> r.code < 400, rows |-> Identities(r.rows),
                           code |-> r.code]
        /\ UNCHANGED <<backend, now, calls, clients>>

NextListing == ListingPostTrips \/ ListingGetTrips

SpecListing == InitListing /\ [][NextListing]_vars

\* C25: every trip in the answer of GET /api/trips satisfies each parameter of
\* the query: its departure airport contains departureCity and its destination
\* contains destinationCity, ignoring case, it departs on or after departureDate
\* and it has at least availableWeight.
C25_QueryConstrainsListing ==
    resp.op = "GET /api/trips" =>
        \A id \in resp.rows : \A trip \in WithId(trips, id) :
            LET query == resp.arg.query
            IN  /\ "departureCity" \in DOMAIN query =>
                    ContainsIgnoringCase(trip.departureAirport, query.departureCity)
                /\ "destinationCity" \in DOMAIN query =>
                    ContainsIgnoringCase(trip.destinationCity, query.destinationCity)
                /\ "departureDate" \in DOMAIN query =>
                    trip.departureDate >= query.departureDate
                /\ "availableWeight" \in DOMAIN query =>
                    trip.availableWeight >= query.availableWeight

-----------------------------------------------------------------------------
(* SpecOwnerPut: the owners, and others, send PUT /api/trips/:id and            *)
(* PUT /api/packages/:id with bodies that name the id and the owner.           *)

OwnerChanges == {[userId |-> 3], [id |-> 2], [availableWeight |-> 1], EmptyBody}

InitOwnerPut ==
    /\ backend \in Backends
    /\ users = WithParcel.users
    /\ trips = WithParcel.trips
    /\ packages = WithParcel.packages
    /\ deliveries = WithParcel.deliveries
    /\ messages = WithParcel.messages
    /\ reviews = WithParcel.reviews
    /\ nextId = WithParcel.nextId
    /\ now = 0
    /\ resp = NoCall
    /\ calls = NoCalls
    /\ clients = NoClients

OwnerPutTrip ==
    \E user \in Requesters, id \in {1, 2}, body \in OwnerChanges :
        /\ LET r == PutTrip(Store, user, id, body)
           IN  /\ Install(r.s)
               /\ resp' = Responded("PUT /api/trips/:id", RequestOn(user, id, body), r)
        /\ UNCHANGED <<backend, now, calls, clients>>

OwnerPutPackage ==
    \E user \in Requesters, id \in {1, 2}, body \in OwnerChanges :
        /\ LET r == PutPackage(Store, user, id, body)
           IN  /\ Install(r.s)
               /\ resp' = Responded("PUT /api/packages/:id", RequestOn(user, id, body), r)
        /\ UNCHANGED <<backend, now, calls, clients>>

NextOwnerPut == OwnerPutTrip \/ OwnerPutPackage

SpecOwnerPut == InitOwnerPut /\ [][NextOwnerPut]_vars

\* C26: no request changes the id or the userId of a stored trip or package, and
\* with MemStorage the entity under key k has id k.
C26_IdAndOwnerAreFixed ==
    [][\A table \in {"trips", "packages"} :
        \A k \in DOMAIN Tables[table] :
            /\ k \in DOMAIN Tables'[table]
            /\ Tables'[table][k].id = Tables[table][k].id
            /\ Tables'[table][k].userId = Tables[table][k].userId
            /\ backend = "mem" => Tables'[table][k].id = k]_vars

-----------------------------------------------------------------------------
(* SpecAuthorship: messages and reviews are posted with bodies that name        *)
(* another sender or reviewer than the session's user, and receivers that are  *)
(* not stored.                                                                 *)

MaxAuthored == 2

\* User 4 is not stored
MessageRequests ==
    {Merge([receiverId |-> to, content |-> HI], claim) :
        to \in {1, 2, 4}, claim \in {EmptyBody, [senderId |-> 3]}}
    \cup {[receiverId |-> 4]}

AuthoredReviews ==
    {Merge([revieweeId |-> e, rating |-> 5], claim) :
        e \in {1, 2}, claim \in {EmptyBody, [reviewerId |-> 3]}}

InitAuthorship ==
    /\ backend \in Backends
    /\ users = Registered.users
    /\ trips = Registered.trips
    /\ packages = Registered.packages
    /\ deliveries = Registered.deliveries
    /\ messages = Registered.messages
    /\ reviews = Registered.reviews
    /\ nextId = Registered.nextId
    /\ now = 0
    /\ resp = NoCall
    /\ calls = NoCalls
    /\ clients = NoClients

AuthorPostMessages ==
    \E user \in Requesters, body \in MessageRequests :
        /\ (nextId.messages - 1) + (nextId.reviews - 1) < MaxAuthored
        /\ LET r == PostMessages(Store, user, body, now)
           IN  Install(r.s) /\ resp' = Responded("POST /api/messages", Request(user, body), r)
        /\ UNCHANGED <<backend, now, calls, clients>>

AuthorPostReviews ==
    \E user \in Requesters, body \in AuthoredReviews :
        /\ (nextId.messages - 1) + (nextId.reviews - 1) < MaxAuthored
        /\ LET r == PostReviews(Store, user, body)
           IN  Install(r.s) /\ resp' = Responded("POST /api/reviews", Request(user, body), r)
        /\ UNCHANGED <<backend, now, calls, clients>>

NextAuthorship == AuthorPostMessages \/ AuthorPostReviews

SpecAuthorship == InitAuthorship /\ [][NextAuthorship]_vars

\* C27: a message stored by POST /api/messages has the session's user as senderId
\* and a review stored by POST /api/reviews has it as reviewerId, whatever the body
\* says; a message with content to a receiver that is not stored is answered 404
\* and stores nothing.
C27_AuthorIsSessionUser ==
    [][/\ (resp'.op = "POST /api/messages" /\ IsAuthenticated(resp'.arg.user)) =>
            /\ \A m \in Rows(messages') \ Rows(messages) : m.senderId = resp'.arg.user
            /\ (/\ {"receiverId", "content"} \subseteq DOMAIN resp'.arg.body
                /\ WithId(users, resp'.arg.body.receiverId) = {})
                    => resp'.code = 404 /\ messages' = messages
       /\ (resp'.op = "POST /api/reviews" /\ IsAuthenticated(resp'.arg.user)) =>
            \A review \in Rows(reviews') \ Rows(reviews) :
                review.reviewerId = resp'.arg.user]_vars

\* C27's case: user 1 has posted a message whose body names user 3 as sender, and
\* the message is stored with senderId 1.
C27_Witness ==
    /\ resp.op = "POST /api/messages"
    /\ resp.arg.user = 1
    /\ Prop(resp.arg.body, "senderId") = 3
    /\ resp.code = 201
    /\ \E m \in Rows(messages) : m.id = resp.rows[1].id /\ m.senderId = 1

-----------------------------------------------------------------------------
(* SpecVerifyRequests: POST /api/verification requests running concurrently.   *)
(* updateUserVerification stops at `await this.getUser(userId)` holding the    *)
(* user it has read, and writes from that user when it goes on.                *)

\* updateUserVerification up to `await this.getUser(userId)`
UpdateUserVerificationBegin(s, userId, verificationData) ==
    Suspended(s, [op |-> "updateUserVerification", at |-> "getUser", userId |-> userId,
                  verificationData |-> verificationData, user |-> GetUser(s, userId)])

\* updateUserVerification after the await: the write from the user read before
UpdateUserVerificationResume(s, call) ==
    IF call.user = <<>> THEN Threw(s)
    ELSE IF backend = "mem"
    THEN LET updatedVerificationStatus ==
                Merge(call.user[1].verificationStatus, call.verificationData)
             updatedUser ==
                Merge(call.user[1], [verificationStatus |-> updatedVerificationStatus,
                                     isVerified |-> Every(updatedVerificationStatus)])
         IN  Returned([s EXCEPT !.users = Put(@, call.userId, updatedUser)], <<updatedUser>>)
    ELSE LET updated == Merge(Spread(call.user[1], "verificationStatus"),
                              call.verificationData)
             table == PgUpdateRows(s.users, UserFields, call.userId,
                                   [verification_status |-> updated,
                                    is_verified |-> Every(updated)])
         IN  Returned([s EXCEPT !.users = table], PgRows(PgSelectById(table, call.userId)))

VerificationRequests ==
    {[verificationType |-> t] : t \in VerificationTypes \cup {"emailVerified"}}
    \cup {EmptyBody}

InitVerifyRequests ==
    /\ backend \in Backends
    /\ users = Registered.users
    /\ trips = Registered.trips
    /\ packages = Registered.packages
    /\ deliveries = Registered.deliveries
    /\ messages = Registered.messages
    /\ reviews = Registered.reviews
    /\ nextId = Registered.nextId
    /\ now = 0
    /\ resp = NoCall
    /\ calls = NoCalls
    /\ clients = NoClients

\* The handler up to its await: refused at once, or stopped in updateUserVerification
VerifyBegin ==
    \E user \in {NoSession, 1}, body \in VerificationRequests :
        /\ FreeSlots # {}
        /\ IF ~IsAuthenticated(user)
           THEN /\ resp' = Responded("POST /api/verification", Request(user, body),
                                     Respond(Store, 401, <<>>))
                /\ calls' = calls
           ELSE IF "verificationType" \notin DOMAIN body
                    \/ body.verificationType \notin VerificationTypes
           THEN /\ resp' = Responded("POST /api/verification", Request(user, body),
                                     Respond(Store, 400, <<>>))
                /\ calls' = calls
           ELSE /\ resp' = resp
                /\ Keep(UpdateUserVerificationBegin(Store, user,
                                                    (body.verificationType :> TRUE)))
        /\ UNCHANGED <<backend, users, trips, packages, deliveries, messages, reviews,
                       nextId, now, clients>>

\* A stopped request goes on to its answer
VerifyResume ==
    \E c \in DOMAIN calls :
        /\ LET r == UpdateUserVerificationResume(Store, calls[c])
               type == CHOOSE t \in DOMAIN calls[c].verificationData : TRUE
               answer == IF r.ok
                         THEN Respond(r.s, 200,
                                <<[verificationStatus |-> Prop(r.rows[1], "verificationStatus"),
                                   isVerified |-> Prop(r.rows[1], "isVerified")]>>)
                         ELSE Respond(r.s, 500, <<>>)
           IN  /\ Install(r.s)
               /\ resp' = Responded("POST /api/verification",
                                    Request(calls[c].userId, [verificationType |-> type]),
                                    answer)
        /\ calls' = [d \in DOMAIN calls \ {c} |-> calls[d]]
        /\ UNCHANGED <<backend, now, clients>>

NextVerifyRequests == VerifyBegin \/ VerifyResume

SpecVerifyRequests == InitVerifyRequests /\ [][NextVerifyRequests]_vars

\* C28: a verification flag that is true stays true, however the requests
\* interleave; a user whose three flags are true is verified; and a logged-in
\* request with another verificationType, or none, is answered 400 and changes no
\* user.
C28_FlagsAreMonotonic ==
    [][/\ \A k \in DOMAIN users : \A t \in VerificationTypes :
            Flag(users[k].verificationStatus, t) =>
                k \in DOMAIN users' /\ Flag(users'[k].verificationStatus, t)
       /\ \A k \in DOMAIN users' :
            (\A t \in VerificationTypes : Flag(users'[k].verificationStatus, t))
                => users'[k].isVerified = TRUE
       /\ (/\ resp'.op = "POST /api/verification"
           /\ IsAuthenticated(resp'.arg.user)
           /\ \/ "verificationType" \notin DOMAIN resp'.arg.body
              \/ resp'.arg.body.verificationType \notin VerificationTypes)
            => resp'.code = 400 /\ users' = users]_vars

-----------------------------------------------------------------------------
(* SpecConversations: users write to each other, open a thread, which marks    *)
(* what they received in it as read, and list their conversations.             *)

MaxThreadMessages == 3

MemMarkMessageAsRead(s, id) ==
    IF id \notin DOMAIN s.messages THEN Returned(s, <<>>)
    ELSE LET updatedMessage == Merge(s.messages[id], [isRead |-> TRUE])
         IN  Returned([s EXCEPT !.messages = Put(@, id, updatedMessage)],
                      <<updatedMessage>>)

PgMarkMessageAsRead(s, id) ==
    LET table == [k \in DOMAIN s.messages |->
                    IF s.messages[k].id = id THEN Merge(s.messages[k], [isRead |-> TRUE])
                    ELSE s.messages[k]]
    IN  Returned([s EXCEPT !.messages = table], PgRows(PgSelectById(table, id)))

MarkMessageAsRead(s, id) ==
    IF backend = "mem" THEN MemMarkMessageAsRead(s, id) ELSE PgMarkMessageAsRead(s, id)

\* message.receiverId === req.user.id && !message.isRead, of the row as returned
Unread(message, user) ==
    /\ Prop(message, "receiverId") = user
    /\ ("isRead" \notin DOMAIN message \/ message.isRead = FALSE)

RECURSIVE MarkAll(_, _, _, _)
MarkAll(s, rows, user, i) ==
    IF i > Len(rows) THEN s
    ELSE MarkAll(IF Unread(rows[i], user) THEN MarkMessageAsRead(s, rows[i].id).s ELSE s,
                 rows, user, i + 1)

\* GET /api/messages/:userId, for each order the storage may return the rows in
GetApiThread(s, user, otherUserId) ==
    IF ~IsAuthenticated(user) THEN {Respond(s, 401, <<>>)}
    ELSE {LET marked == MarkAll(r.s, r.rows, user, 1)
          IN  IF GetUser(marked, otherUserId) = <<>> THEN Respond(marked, 404, <<>>)
              ELSE Respond(marked, 200, r.rows) :
          r \in GetMessagesBetweenUsers(s, user, otherUserId)}

LastMessage(message) ==
    [id |-> Prop(message, "id"), senderId |-> Prop(message, "senderId"),
     receiverId |-> Prop(message, "receiverId"), createdAt |-> Prop(message, "createdAt")]

\* The loop of GET /api/messages from message i on; conversations maps the other
\* user's id to the conversation built so far
RECURSIVE Conversations(_, _, _, _, _)
Conversations(s, user, rows, i, conversations) ==
    IF i > Len(rows) THEN conversations
    ELSE LET message == rows[i]
             otherUserId == IF Prop(message, "senderId") = user
                            THEN Prop(message, "receiverId")
                            ELSE Prop(message, "senderId")
             otherUser == GetUser(s, otherUserId)
             unread == IF Unread(message, user) THEN 1 ELSE 0
             next ==
                IF otherUserId \notin DOMAIN conversations
                THEN IF otherUser = <<>> THEN conversations
                     ELSE (otherUserId :>
                            [user |-> [id |-> Prop(otherUser[1], "id")],
                             lastMessage |-> LastMessage(message),
                             unreadCount |-> unread]) @@ conversations
                ELSE LET c == conversations[otherUserId]
                         last == IF Prop(message, "createdAt") > c.lastMessage.createdAt
                                 THEN LastMessage(message) ELSE c.lastMessage
                     IN  [conversations EXCEPT ![otherUserId] =
                            [c EXCEPT !.lastMessage = last,
                                      !.unreadCount = c.unreadCount + unread]]
         IN  Conversations(s, user, rows, i + 1, next)

\* Object.values of an object with integer keys: in ascending order of the keys
ObjectValues(obj) ==
    LET keys == CHOOSE x \in Arrangements(DOMAIN obj) :
                    \A i, j \in DOMAIN x : i < j => x[i] < x[j]
    IN  [i \in DOMAIN keys |-> obj[keys[i]]]

\* GET /api/messages, for each order the storage may return the rows in
GetApiMessages(s, user) ==
    IF ~IsAuthenticated(user) THEN {Respond(s, 401, <<>>)}
    ELSE {Respond(r.s, 200, ObjectValues(Conversations(r.s, user, r.rows, 1, <<>>))) :
          r \in GetMessagesByUserId(s, user)}

ThreadRequests ==
    {[receiverId |-> receiver, content |-> HI] : receiver \in {1, 2, 3, 4}}

InitConversations ==
    /\ backend \in Backends
    /\ users = Registered.users
    /\ trips = Registered.trips
    /\ packages = Registered.packages
    /\ deliveries = Registered.deliveries
    /\ messages = Registered.messages
    /\ reviews = Registered.reviews
    /\ nextId = Registered.nextId
    /\ now = 0
    /\ resp = NoCall
    /\ calls = NoCalls
    /\ clients = NoClients

ThreadPostMessages ==
    \E user \in Sessions, body \in ThreadRequests :
        /\ nextId.messages <= MaxThreadMessages
        /\ LET r == PostMessages(Store, user, body, now)
           IN  /\ Install(r.s)
               /\ resp' = Responded("POST /api/messages", Request(user, body), r)
        /\ UNCHANGED <<backend, now, calls, clients>>

ThreadGetThread ==
    \E user \in Sessions, otherUserId \in {1, 2, 3, 4} :
        \E r \in GetApiThread(Store, user, otherUserId) :
            /\ Install(r.s)
            /\ resp' = Responded("GET /api/messages/:userId",
                                 RequestOn(user, otherUserId, EmptyBody), r)
            /\ UNCHANGED <<backend, now, calls, clients>>

ThreadGetMessages ==
    \E user \in Sessions :
        \E r \in GetApiMessages(Store, user) :
            /\ Install(r.s)
            /\ resp' = Responded("GET /api/messages", Request(user, EmptyBody), r)
            /\ UNCHANGED <<backend, now, calls, clients>>

NextConversations ==
    \/ ThreadPostMessages
    \/ ThreadGetThread
    \/ ThreadGetMessages
    \/ Tick

SpecConversations == InitConversations /\ [][NextConversations]_vars

\* The users who exist and have exchanged a message with user
Counterparts(user) ==
    {other \in {users[k].id : k \in DOMAIN users} : Exchanged(user, other) # {}}

\* C30: the answer to a logged-in GET /api/messages has one conversation for each
\* stored user the requester has exchanged a message with and no other; its
\* unreadCount is the number of unread stored messages from that user to the
\* requester, and its lastMessage is a message of the two with the latest
\* creation time.
C30_OneConversationPerCounterpart ==
    (resp.op = "GET /api/messages" /\ IsAuthenticated(resp.arg.user))
    => LET user == resp.arg.user
       IN  /\ resp.code = 200
           /\ Len(resp.rows) = Cardinality(Counterparts(user))
           /\ {resp.rows[i].user.id : i \in DOMAIN resp.rows} = Counterparts(user)
           /\ \A i \in DOMAIN resp.rows :
                LET other == resp.rows[i].user.id
                IN  /\ resp.rows[i].unreadCount =
                            Cardinality({m \in Rows(messages) :
                                            /\ m.senderId = other
                                            /\ m.receiverId = user
                                            /\ m.isRead = FALSE})
                    /\ resp.rows[i].lastMessage.id \in Exchanged(user, other)
                    /\ \A id \in Exchanged(user, other) :
                            StoredMessage(id).createdAt
                                <= StoredMessage(resp.rows[i].lastMessage.id).createdAt

====
